---- MODULE Spec2Model ----
(***************************************************************************)
(* Verification model of n32g4xx-hal.                                      *)
(*                                                                         *)
(*  - rcc: the CFGR builder, MainPll::fast_setup and the commit sequence   *)
(*    of CFGR::freeze_internal (src/src/rcc/mod.rs, src/src/rcc/pll.rs).   *)
(*  - gpio: Pin::mode, the into_<mode> / with_<mode> conversions and the   *)
(*    output operations (src/src/gpio.rs, src/src/gpio/convert.rs).        *)
(*                                                                         *)
(* Frequencies are in Hz, as in the source.  Option<u32> is modelled as a  *)
(* sequence: << >> is None and <<v>> is Some(v).                           *)
(***************************************************************************)
EXTENDS Integers, Sequences, FiniteSets, TLC

VARIABLES
    device,      \* the cargo feature the crate is built for
    overflow_checks, \* build profile: TRUE = arithmetic overflow panics
    cfgr,        \* the CFGR builder value
    unchecked,   \* argument of freeze_internal
    pc,          \* position of the caller inside freeze_internal
    loc,         \* locals of freeze_internal once they are computed
    rcc_cfg,     \* RCC CFG register, by field
    rcc_ctrl,    \* RCC CTRL register, by field
    rcc_cfg2,    \* RCC CFG2 register, by field
    rcc_cfg3,    \* RCC CFG3 register, by field
    flash_ac,    \* FLASH AC register, by field
    writes,      \* hardware accesses of freeze_internal, in program order
    clocks,      \* the Clocks value returned, << >> while none is
    pl_cfg,      \* GPIO PL_CFG register of each port, by bit
    ph_cfg,      \* GPIO PH_CFG register of each port, by bit
    pod,         \* GPIO POD (output data) register of each port, by bit
    typestate,   \* the MODE type parameter of each owned Pin
    frames,      \* the with_<mode> calls in progress, innermost last
    gpio_last,   \* the last pin operation and what its mode() call wrote
    pclken,      \* RCC clock enable register of each bus, as its set bits
    prst,        \* RCC reset register of each bus, as its set bits
    bus_pc,      \* the reset() or constructor in progress and its accesses
    want,        \* what the last enable()/disable() of a peripheral asked
    afio_rmp,    \* AFIO remap field of each peripheral
    alt,         \* the last conversion or constructor of gpio::alt users
    uart,        \* the last serial constructor call, its result and writes
    i2c,         \* an I2CMasterDma with both channels, and its bus
    nor,         \* the flash array, the FMC and the last NorFlash call
    circ         \* a CircBuffer, its DMA channel and its reader

rccVars == <<device, overflow_checks, cfgr, unchecked, pc, loc, rcc_cfg,
             rcc_ctrl, rcc_cfg2, rcc_cfg3, flash_ac, writes, clocks>>

gpioVars == <<pl_cfg, ph_cfg, pod, typestate, frames, gpio_last>>

busVars == <<pclken, prst, bus_pc, want>>

altVars == <<afio_rmp, alt>>

drvVars == <<uart, i2c, nor, circ>>

vars == <<rccVars, gpioVars, busVars, altVars, drvVars>>

-----------------------------------------------------------------------------
(* Option<u32> *)

None == << >>

Some(v) == <<v>>

is_some(o) == o # None

unwrap_or(o, d) == IF o = None THEN d ELSE o[1]

Min(a, b) == IF a <= b THEN a ELSE b

-----------------------------------------------------------------------------
(* Program constants of rcc/mod.rs *)

HSI == 16000000

SYSCLK_MIN == 32000000

Devices == {"n32g401", "n32g430", "n32g432", "n32g451"}

SYSCLK_MAX ==
    CASE device = "n32g401" -> 72000000
      [] device = "n32g430" -> 128000000
      [] device = "n32g432" -> 108000000
      [] device = "n32g451" -> 144000000

PCLK2_MAX == SYSCLK_MAX \div 2

PCLK1_MAX == SYSCLK_MAX \div 4

flash_latency_step == 24000000

(* Frequencies the builder methods are called with. *)
HseChoices == {4000000, 8000000}

SysclkChoices == {4000000, 8000000, 36000000, 64000000, 128000000, 144000000}

HclkChoices == {3500000, 36000000}

Pclk1Choices == {9000000, 100000000}

Pclk2Choices == {16000000, 72000000}

-----------------------------------------------------------------------------
(* MainPll::fast_setup *)

\* the key of max_by_key for one prescaler candidate
PllResidual(pllsrcclk, target_freq, presc) ==
    LET vco_in == pllsrcclk \div presc
        plln   == target_freq \div vco_in
    IN  target_freq - vco_in * plln

\* (1..=2).max_by_key(..): the last element with the maximum key
PllPresc(pllsrcclk, use_hse, target_freq) ==
    IF use_hse
    THEN IF PllResidual(pllsrcclk, target_freq, 2)
              >= PllResidual(pllsrcclk, target_freq, 1)
         THEN 2 ELSE 1
    ELSE 2

\* target_freq / vco_in divides by zero when pllsrcclk / 2 is 0
PllDivByZero(pllsrcclk) == pllsrcclk \div 2 = 0

PllVcoIn(pllsrcclk, use_hse, target_freq) ==
    pllsrcclk \div PllPresc(pllsrcclk, use_hse, target_freq)

\* mutant: the multiplier is taken against the undivided source clock
MutPllMulFromSource(pllsrcclk, use_hse, target_freq) ==
    target_freq \div pllsrcclk

PllMul(pllsrcclk, use_hse, target_freq) ==
    target_freq \div PllVcoIn(pllsrcclk, use_hse, target_freq)

\* pll_mul - 1 underflows when pll_mul = 0
PllMulUnderflow(pll_mul) == pll_mul = 0

\* the flag given to pllmulfct_h().bit(..)
PllMulFctH(pll_mul) == pll_mul > 16

\* the value given to pllmulfct().bits(..): (pll_mul - 17 | pll_mul - 1) as u8,
\* where the u32 subtraction has wrapped when pll_mul = 0
PllMulFct(pll_mul) ==
    IF pll_mul > 16 THEN (pll_mul - 17) % 256
    ELSE IF pll_mul = 0 THEN 255
    ELSE (pll_mul - 1) % 256

\* the value rcc.cfg().write(..) leaves in the CFG register: the fields it
\* names, every other field at its reset value
PllCfgWrite(pllsrcclk, use_hse, target_freq) ==
    LET pll_mul == PllMul(pllsrcclk, use_hse, target_freq)
    IN  [pllmulfct_h |-> PllMulFctH(pll_mul),
         pllmulfct   |-> PllMulFct(pll_mul),
         pllhsepres  |-> use_hse /\ PllPresc(pllsrcclk, use_hse, target_freq) = 2,
         pllsrc      |-> use_hse,
         apb2pres    |-> 1,
         apb1pres    |-> 1,
         ahbpres     |-> 1,
         usbpres     |-> 0,
         sclksw      |-> "Hsi"]

\* real_pllsysclk
PllSysclk(pllsrcclk, use_hse, target_freq) ==
    PllVcoIn(pllsrcclk, use_hse, target_freq)
        * PllMul(pllsrcclk, use_hse, target_freq)

-----------------------------------------------------------------------------
(* CFGR::freeze_internal, the part that computes (lines 410-474) *)

pllsrcclk == unwrap_or(cfgr.hse, HSI)

sysclk_target == unwrap_or(cfgr.sysclk, pllsrcclk)

sysclk_on_pll == sysclk_target # pllsrcclk

use_hse == is_some(cfgr.hse)

\* MainPll::fast_setup panics before it writes the CFG register
FastSetupPanics ==
    /\ sysclk_on_pll
    /\ \/ PllDivByZero(pllsrcclk)
       \/ /\ overflow_checks
          /\ PllMulUnderflow(PllMul(pllsrcclk, use_hse, sysclk_target))

\* plls.use_pll
UsePll == sysclk_on_pll

\* sysclk after the PLL has been solved
RealSysclk ==
    IF sysclk_on_pll THEN PllSysclk(pllsrcclk, use_hse, sysclk_target)
    ELSE sysclk_target

\* mutant: the assertion checks the upper end of the range only
MutSysclkAssertNoMin(u, on_pll, sysclk) ==
    u \/ ~on_pll \/ sysclk <= SYSCLK_MAX

\* assert!(unchecked || !sysclk_on_pll || (SYSCLK_MIN..=SYSCLK_MAX).contains(&sysclk))
SysclkAssert(u, on_pll, sysclk) ==
    u \/ ~on_pll \/ (SYSCLK_MIN <= sysclk /\ sysclk <= SYSCLK_MAX)

\* (a + b - 1) / b of u32 operands panics: an overflow of the sum, a
\* division by zero, or the unreachable!() arm of the match on 0
RatioPanics(a, b) == b = 0 \/ (a + b - 1) \div b = 0

Ratio(a, b) == (a + b - 1) \div b

\* mutant: the match has an arm for a divider of 32
MutHpreDivWith32(r) ==
    CASE r = 1 -> 1
      [] r = 2 -> 2
      [] r >= 3 /\ r <= 5 -> 4
      [] r >= 6 /\ r <= 11 -> 8
      [] r >= 12 /\ r <= 16 -> 16
      [] r >= 17 /\ r <= 39 -> 32
      [] r >= 40 /\ r <= 95 -> 64
      [] r >= 96 /\ r <= 191 -> 128
      [] r >= 192 /\ r <= 383 -> 256
      [] OTHER -> 512

\* the match that selects (hpre_bits, hpre_div)
HpreDiv(r) ==
    CASE r = 1 -> 1
      [] r = 2 -> 2
      [] r >= 3 /\ r <= 5 -> 4
      [] r >= 6 /\ r <= 11 -> 8
      [] r >= 12 /\ r <= 39 -> 16
      [] r >= 40 /\ r <= 95 -> 64
      [] r >= 96 /\ r <= 191 -> 128
      [] r >= 192 /\ r <= 383 -> 256
      [] OTHER -> 512

\* mutant: a ratio of 2 is given the divider 1
MutPpreDivTwoAsOne(r) ==
    CASE r = 1 -> 1
      [] r = 2 -> 1
      [] r >= 3 /\ r <= 5 -> 4
      [] r >= 6 /\ r <= 11 -> 8
      [] OTHER -> 16

\* the match that selects (ppre1_bits, ppre1) and (ppre2_bits, ppre2)
PpreDiv(r) ==
    CASE r = 1 -> 1
      [] r = 2 -> 2
      [] r >= 3 /\ r <= 5 -> 4
      [] r >= 6 /\ r <= 11 -> 8
      [] OTHER -> 16

HclkReq(sysclk) == unwrap_or(cfgr.hclk, sysclk)

\* mutant: the requested hclk is reported instead of the divided sysclk
MutRealHclkAsRequested(sysclk) == HclkReq(sysclk)

\* Calculate real AHB clock
RealHclk(sysclk) == sysclk \div HpreDiv(Ratio(sysclk, HclkReq(sysclk)))

Pclk1Req(hclk) == unwrap_or(cfgr.pclk1, Min(PCLK1_MAX, hclk))

Pclk2Req(hclk) == unwrap_or(cfgr.pclk2, Min(PCLK2_MAX, hclk))

\* Calculate real APB1 clock
RealPclk1(hclk) == hclk \div PpreDiv(Ratio(hclk, Pclk1Req(hclk)))

\* Calculate real APB2 clock
RealPclk2(hclk) == hclk \div PpreDiv(Ratio(hclk, Pclk2Req(hclk)))

\* mutant: the assertion on pclk1 is missing
MutPclk1AssertOff(u, pclk1) == TRUE

\* assert!(unchecked || pclk1 <= PCLK1_MAX)
Pclk1Assert(u, pclk1) == u \/ pclk1 <= PCLK1_MAX

\* assert!(unchecked || pclk2 <= PCLK2_MAX)
Pclk2Assert(u, pclk2) == u \/ pclk2 <= PCLK2_MAX

\* some panic between the return of fast_setup and flash_setup
ComputePanics(u) ==
    LET sysclk == RealSysclk
        hclk   == RealHclk(sysclk)
    IN  \/ ~SysclkAssert(u, sysclk_on_pll, sysclk)
        \/ RatioPanics(sysclk, HclkReq(sysclk))
        \/ RatioPanics(hclk, Pclk1Req(hclk))
        \/ ~Pclk1Assert(u, RealPclk1(hclk))
        \/ RatioPanics(hclk, Pclk2Req(hclk))
        \/ ~Pclk2Assert(u, RealPclk2(hclk))

LocNone ==
    [sysclk_on_pll |-> FALSE, use_pll |-> FALSE, sysclk |-> 0, hclk |-> 0,
     pclk1 |-> 0, pclk2 |-> 0, hpre_div |-> 0, ppre1 |-> 0, ppre2 |-> 0]

Locals ==
    LET sysclk == RealSysclk
        hclk   == RealHclk(sysclk)
    IN  [sysclk_on_pll |-> sysclk_on_pll,
         use_pll  |-> UsePll,
         sysclk   |-> sysclk,
         hclk     |-> hclk,
         pclk1    |-> RealPclk1(hclk),
         pclk2    |-> RealPclk2(hclk),
         hpre_div |-> HpreDiv(Ratio(sysclk, HclkReq(sysclk))),
         ppre1    |-> PpreDiv(Ratio(hclk, Pclk1Req(hclk))),
         ppre2    |-> PpreDiv(Ratio(hclk, Pclk2Req(hclk)))]

-----------------------------------------------------------------------------
(* State after RccExt::constrain on a device that has just left reset *)

CfgReset ==
    [pllmulfct_h |-> FALSE, pllmulfct |-> 0, pllhsepres |-> FALSE,
     pllsrc |-> FALSE, apb2pres |-> 1, apb1pres |-> 1, ahbpres |-> 1,
     usbpres |-> 0, sclksw |-> "Hsi"]

InitRcc ==
    /\ device \in Devices
    /\ overflow_checks \in BOOLEAN
    /\ cfgr = [hse |-> None, hse_bypass |-> FALSE, hclk |-> None,
               pclk1 |-> None, pclk2 |-> None, sysclk |-> None]
    /\ unchecked = FALSE
    /\ pc = "cfgr"
    /\ loc = LocNone
    /\ rcc_cfg = CfgReset
    /\ rcc_ctrl = [hsebp |-> FALSE, hseen |-> FALSE, hserdf |-> FALSE,
                   pllen |-> FALSE, pllrdf |-> FALSE]
    /\ rcc_cfg2 = [adc1msel |-> FALSE, adc1mpres |-> 0, adchpres |-> 0,
                   adcpllpres |-> 0]
    /\ rcc_cfg3 = [trng1msel |-> FALSE, trng1mpres |-> 0]
    /\ flash_ac = [latency |-> 0, prftbfe |-> FALSE, icahen |-> FALSE]
    /\ writes = << >>
    /\ clocks = None

hwVars == <<rcc_cfg, rcc_ctrl, rcc_cfg2, rcc_cfg3, flash_ac, writes>>

Builder(c) ==
    /\ pc = "cfgr"
    /\ cfgr' = c
    /\ UNCHANGED <<device, overflow_checks, unchecked, pc, loc, clocks>>
    /\ UNCHANGED hwVars
    /\ UNCHANGED <<gpioVars, busVars, altVars, drvVars>>

\* CFGR::use_hse
UseHse == \E f \in HseChoices : Builder([cfgr EXCEPT !.hse = Some(f)])

\* CFGR::bypass_hse_oscillator
BypassHseOscillator == Builder([cfgr EXCEPT !.hse_bypass = TRUE])

\* CFGR::hclk
SetHclk == \E f \in HclkChoices : Builder([cfgr EXCEPT !.hclk = Some(f)])

\* CFGR::pclk1
SetPclk1 == \E f \in Pclk1Choices : Builder([cfgr EXCEPT !.pclk1 = Some(f)])

\* CFGR::pclk2
SetPclk2 == \E f \in Pclk2Choices : Builder([cfgr EXCEPT !.pclk2 = Some(f)])

\* CFGR::sysclk
SetSysclk == \E f \in SysclkChoices : Builder([cfgr EXCEPT !.sysclk = Some(f)])

-----------------------------------------------------------------------------
(* CFGR::freeze / freeze_unchecked -> freeze_internal *)

Step(from, to) ==
    /\ pc = from
    /\ pc' = to
    /\ UNCHANGED <<device, overflow_checks, cfgr, unchecked, loc>>
    /\ UNCHANGED <<gpioVars, busVars, altVars, drvVars>>

\* lines 410-474: pll_setup (with the CFG write of fast_setup), the
\* dividers and the assertions
FreezeSolve(u) ==
    /\ pc = "cfgr"
    /\ unchecked' = u
    /\ IF FastSetupPanics
       THEN /\ pc' = "panicked"
            /\ loc' = loc
            /\ UNCHANGED hwVars
       ELSE /\ IF sysclk_on_pll
               THEN /\ rcc_cfg' = PllCfgWrite(pllsrcclk, use_hse, sysclk_target)
                    /\ writes' = Append(writes, "cfg.pll")
               ELSE UNCHANGED <<rcc_cfg, writes>>
            /\ UNCHANGED <<rcc_ctrl, rcc_cfg2, rcc_cfg3, flash_ac>>
            /\ IF ComputePanics(u)
               THEN pc' = "panicked" /\ loc' = loc
               ELSE pc' = "flash_setup" /\ loc' = Locals
    /\ UNCHANGED <<device, overflow_checks, cfgr, clocks>>
    /\ UNCHANGED <<gpioVars, busVars, altVars, drvVars>>

\* CFGR::freeze
Freeze == FreezeSolve(FALSE)

\* CFGR::freeze_unchecked
FreezeUnchecked == FreezeSolve(TRUE)

\* the value given to latency().bits(..)
FlashLatency(sysclk) == ((sysclk - 1) \div flash_latency_step) % 256

AfterHse == IF loc.use_pll THEN "pll_enable" ELSE "set_pres"

AfterFlash == IF use_hse THEN "hse_enable" ELSE AfterHse

\* CFGR::flash_setup
FlashSetup ==
    /\ Step("flash_setup", AfterFlash)
    /\ flash_ac' = [latency |-> FlashLatency(loc.sysclk), prftbfe |-> TRUE,
                    icahen |-> TRUE]
    /\ writes' = Append(writes, "flash.ac")
    /\ UNCHANGED <<rcc_cfg, rcc_ctrl, rcc_cfg2, rcc_cfg3, clocks>>

\* enable HSE
HseEnable ==
    /\ Step("hse_enable", "hse_wait")
    /\ rcc_ctrl' = [rcc_ctrl EXCEPT !.hsebp = IF cfgr.hse_bypass THEN TRUE ELSE @,
                                    !.hseen = TRUE]
    /\ writes' = Append(writes, "ctrl.hseen")
    /\ UNCHANGED <<rcc_cfg, rcc_cfg2, rcc_cfg3, flash_ac, clocks>>

\* mutant: the HSE ready flag is not polled
MutHseWaitSkipped ==
    /\ Step("hse_wait", AfterHse)
    /\ UNCHANGED <<rcc_cfg, rcc_ctrl, rcc_cfg2, rcc_cfg3, flash_ac, writes, clocks>>

\* while rcc.ctrl().read().hserdf().bit_is_clear() {}
HseWait ==
    /\ Step("hse_wait", AfterHse)
    /\ rcc_ctrl.hserdf
    /\ writes' = Append(writes, "ctrl.hserdf")
    /\ UNCHANGED <<rcc_cfg, rcc_ctrl, rcc_cfg2, rcc_cfg3, flash_ac, clocks>>

\* Enable PLL
PllEnable ==
    /\ Step("pll_enable", "pll_wait")
    /\ rcc_ctrl' = [rcc_ctrl EXCEPT !.pllen = TRUE]
    /\ writes' = Append(writes, "ctrl.pllen")
    /\ UNCHANGED <<rcc_cfg, rcc_cfg2, rcc_cfg3, flash_ac, clocks>>

\* mutant: the loop gives up when the flag is still clear
MutPllWaitGivesUp ==
    /\ Step("pll_wait", "set_pres")
    /\ writes' = Append(writes, "ctrl.pllrdf")
    /\ UNCHANGED <<rcc_cfg, rcc_ctrl, rcc_cfg2, rcc_cfg3, flash_ac, clocks>>

\* while rcc.ctrl().read().pllrdf().bit_is_clear() {}
PllWait ==
    /\ Step("pll_wait", "set_pres")
    /\ rcc_ctrl.pllrdf
    /\ writes' = Append(writes, "ctrl.pllrdf")
    /\ UNCHANGED <<rcc_cfg, rcc_ctrl, rcc_cfg2, rcc_cfg3, flash_ac, clocks>>

\* mutant: the clock switch is made in the same write as the prescalers
MutSetPrescalersAndSwitch ==
    /\ Step("set_pres", "usb_pres")
    /\ rcc_cfg' = [rcc_cfg EXCEPT !.apb2pres = loc.ppre2,
                                  !.apb1pres = loc.ppre1,
                                  !.ahbpres = loc.hpre_div,
                                  !.sclksw = IF loc.sysclk_on_pll THEN "Pll"
                                             ELSE IF use_hse THEN "Hse"
                                             ELSE "Hsi"]
    /\ writes' = Append(writes, "cfg.pres")
    /\ UNCHANGED <<rcc_ctrl, rcc_cfg2, rcc_cfg3, flash_ac, clocks>>

\* Set scaling factors
SetPrescalers ==
    /\ Step("set_pres", "usb_pres")
    /\ rcc_cfg' = [rcc_cfg EXCEPT !.apb2pres = loc.ppre2,
                                  !.apb1pres = loc.ppre1,
                                  !.ahbpres = loc.hpre_div]
    /\ writes' = Append(writes, "cfg.pres")
    /\ UNCHANGED <<rcc_ctrl, rcc_cfg2, rcc_cfg3, flash_ac, clocks>>

\* let usb_pres = match hclk
UsbPresOf(hclk) ==
    CASE hclk = 144000000 -> 3
      [] hclk = 96000000 -> 2
      [] hclk = 48000000 -> 1
      [] hclk = 72000000 -> 0
      [] OTHER -> 3

UsbPres(from, to) ==
    /\ Step(from, to)
    /\ rcc_cfg' = [rcc_cfg EXCEPT !.usbpres = UsbPresOf(loc.hclk)]
    /\ writes' = Append(writes, "cfg.usbpres")
    /\ UNCHANGED <<rcc_ctrl, rcc_cfg2, rcc_cfg3, flash_ac, clocks>>

\* the first write of usbpres (line 516)
UsbPresFirst == UsbPres("usb_pres", "adc_1m")

\* (adc_1m_sel, adc_1m_pres)
Adc1mSel == ~(~use_hse \/ pllsrcclk > 32000000)

Adc1mPres ==
    IF Adc1mSel THEN ((pllsrcclk \div 1000000) - 1) % 256
    ELSE ((HSI \div 1000000) - 1) % 256

Adc1m ==
    /\ Step("adc_1m", "trng_sel")
    /\ rcc_cfg2' = [rcc_cfg2 EXCEPT !.adc1msel = Adc1mSel,
                                    !.adc1mpres = Adc1mPres]
    /\ writes' = Append(writes, "cfg2.adc1m")
    /\ UNCHANGED <<rcc_cfg, rcc_ctrl, rcc_cfg3, flash_ac, clocks>>

\* (trng_1m_sel, trng_1m_pres): the even MHz values from 2 MHz to 32 MHz
Trng1mSel ==
    /\ use_hse
    /\ pllsrcclk % 2000000 = 0
    /\ pllsrcclk >= 2000000
    /\ pllsrcclk <= 32000000

Trng1mPres == IF Trng1mSel THEN (pllsrcclk \div 1000000) - 1 ELSE 6

AdcPres ==
    /\ Step("trng_sel", "trng")
    /\ rcc_cfg2' = [rcc_cfg2 EXCEPT !.adchpres = 1, !.adcpllpres = 17]
    /\ writes' = Append(writes, "cfg2.adcpres")
    /\ UNCHANGED <<rcc_cfg, rcc_ctrl, rcc_cfg3, flash_ac, clocks>>

Trng ==
    /\ Step("trng", "usb_pres2")
    /\ rcc_cfg3' = [trng1msel |-> Trng1mSel, trng1mpres |-> Trng1mPres]
    /\ writes' = Append(writes, "cfg3.trng")
    /\ UNCHANGED <<rcc_cfg, rcc_ctrl, rcc_cfg2, flash_ac, clocks>>

\* the second write of usbpres (line 550)
UsbPresSecond == UsbPres("usb_pres2", "sclksw")

\* mutant: without the PLL the mux is left on HSI
MutSclkswOfNeverHse(on_pll, hse) ==
    IF on_pll THEN "Pll" ELSE "Hsi"

\* the variant given to sclksw()
SclkswOf(on_pll, hse) ==
    IF on_pll THEN "Pll" ELSE IF hse THEN "Hse" ELSE "Hsi"

\* Select system clock source, and return the Clocks
SelectSysclk ==
    /\ Step("sclksw", "done")
    /\ rcc_cfg' = [rcc_cfg EXCEPT !.sclksw = SclkswOf(loc.sysclk_on_pll, use_hse)]
    /\ writes' = Append(writes, "cfg.sclksw")
    /\ clocks' = Some([hclk |-> loc.hclk, pclk1 |-> loc.pclk1,
                       pclk2 |-> loc.pclk2, sysclk |-> loc.sysclk])
    /\ UNCHANGED <<rcc_ctrl, rcc_cfg2, rcc_cfg3, flash_ac>>

(* The oscillators: a ready flag is raised by the hardware some time after *)
(* the enable bit is set, or never.                                        *)
Hardware(r) ==
    /\ rcc_ctrl' = r
    /\ UNCHANGED <<device, overflow_checks, cfgr, unchecked, pc, loc, rcc_cfg,
                   rcc_cfg2, rcc_cfg3, flash_ac, writes, clocks>>
    /\ UNCHANGED <<gpioVars, busVars, altVars, drvVars>>

HseReady ==
    /\ rcc_ctrl.hseen /\ ~rcc_ctrl.hserdf
    /\ Hardware([rcc_ctrl EXCEPT !.hserdf = TRUE])

PllReady ==
    /\ rcc_ctrl.pllen /\ ~rcc_ctrl.pllrdf
    /\ Hardware([rcc_ctrl EXCEPT !.pllrdf = TRUE])

-----------------------------------------------------------------------------
(* gpio: the PinMode constants (gpio/convert.rs) *)

Modes ==
    {"InputFloating", "InputPullDown", "InputPullUp", "OutputOpenDrain",
     "OutputPushPull", "Analog", "AlternatePushPull", "AlternateInput",
     "AlternateOpenDrain"}

\* PinMode::CNF
CNF(m) ==
    CASE m = "InputFloating" -> 1
      [] m = "InputPullDown" -> 2
      [] m = "InputPullUp" -> 2
      [] m = "OutputOpenDrain" -> 1
      [] m = "OutputPushPull" -> 0
      [] m = "Analog" -> 0
      [] m = "AlternatePushPull" -> 2
      [] m = "AlternateInput" -> 1
      [] m = "AlternateOpenDrain" -> 3

\* PinMode::MODE
MODE(m) ==
    CASE m \in {"InputFloating", "InputPullDown", "InputPullUp", "Analog",
                "AlternateInput"} -> 0
      [] OTHER -> 3

\* PinMode::PULL
PULL(m) ==
    CASE m = "InputPullDown" -> Some(FALSE)
      [] m = "InputPullUp" -> Some(TRUE)
      [] OTHER -> None

\* the impl Pin<P, N, Output<MODE>> block
IsOutput(m) == m \in {"OutputOpenDrain", "OutputPushPull"}

Ports == {"A", "B"}

\* the pins the operations below are applied to
Pins == {<<"A", 1>>, <<"A", 9>>}

\* bit positions of the fields pmodeN and pcfgN inside PL_CFG (N < 8) or
\* PH_CFG (N >= 8)
PmodeShift(n) == 4 * (n % 8)

PcfgShift(n) == 4 * (n % 8) + 2

\* a two-bit field of a register
Field(reg, shift) == reg[shift] + 2 * reg[shift + 1]

WithField(reg, shift, v) ==
    [b \in DOMAIN reg |->
        IF b = shift THEN v % 2
        ELSE IF b = shift + 1 THEN (v \div 2) % 2
        ELSE reg[b]]

\* the hardware configuration of pin n of a port
PinCnfBits(port, n) ==
    IF n < 8 THEN Field(pl_cfg[port], PcfgShift(n))
    ELSE Field(ph_cfg[port], PcfgShift(n))

PinModeBits(port, n) ==
    IF n < 8 THEN Field(pl_cfg[port], PmodeShift(n))
    ELSE Field(ph_cfg[port], PmodeShift(n))

\* the type of the pin the caller holds: the closure's pin inside a
\* with_<mode> call, the owned pin otherwise
RECURSIVE TopFrame(_, _)
TopFrame(fs, p) ==
    IF fs = << >> THEN None
    ELSE IF fs[Len(fs)].pin = p THEN Some(fs[Len(fs)])
    ELSE TopFrame(SubSeq(fs, 1, Len(fs) - 1), p)

CurrentMode(p) ==
    IF TopFrame(frames, p) = None THEN typestate[p]
    ELSE TopFrame(frames, p)[1].mode

Borrowed(p) == TopFrame(frames, p) # None

-----------------------------------------------------------------------------
(* gpio: register writes *)

\* pbsc().write(1 << n) sets POD bit n; pbsc().write(1 << (16 + n)) and
\* pbc().write(1 << n) clear it
PodSet(pd, p) == [pd EXCEPT ![p[1]][p[2]] = 1]

PodClear(pd, p) == [pd EXCEPT ![p[1]][p[2]] = 0]

\* Pin::_set_state
SetState(pd, p, high) == IF high THEN PodSet(pd, p) ELSE PodClear(pd, p)

\* Pin::mode, lines 94-100: the pull direction
ModePull(pd, p, cur, new) ==
    IF PULL(cur) = None THEN pd
    ELSE IF PULL(cur)[1] THEN PodSet(pd, p) ELSE PodClear(pd, p)

\* what the pull step of Pin::mode writes: "pbsc", "pbc" or nothing
ModePullWrite(cur, new) ==
    IF PULL(cur) = None THEN "none"
    ELSE IF PULL(cur)[1] THEN "pbsc" ELSE "pbc"

\* mutant: the fields are placed two bits per pin, as set_speed does
MutModeCfgStride2(reg, n, new) ==
    WithField(WithField(reg, (2 * n + 2) % 32, CNF(new)), (2 * n) % 32, MODE(new))

\* Pin::mode, lines 102-120: the pcfgN / pmodeN fields of pin n
ModeCfg(reg, n, new) ==
    WithField(WithField(reg, PcfgShift(n), CNF(new)), PmodeShift(n), MODE(new))

\* mutant: the fields are written from the mode the pin comes from
MutPinModeOpFromOld(p, cur, new, pd, op) ==
    /\ pod' = ModePull(pd, p, cur, new)
    /\ IF p[2] < 8
       THEN /\ pl_cfg' = [pl_cfg EXCEPT ![p[1]] = ModeCfg(@, p[2], cur)]
            /\ ph_cfg' = ph_cfg
       ELSE /\ ph_cfg' = [ph_cfg EXCEPT ![p[1]] = ModeCfg(@, p[2], cur)]
            /\ pl_cfg' = pl_cfg
    /\ gpio_last' = [op |-> op, pin |-> p, pull |-> ModePullWrite(cur, new)]
    /\ UNCHANGED <<rccVars, busVars, altVars, drvVars>>

\* Pin::mode::<new>() on a pin whose type is cur, after POD has become pd
PinModeOp(p, cur, new, pd, op) ==
    /\ pod' = ModePull(pd, p, cur, new)
    /\ IF p[2] < 8
       THEN /\ pl_cfg' = [pl_cfg EXCEPT ![p[1]] = ModeCfg(@, p[2], new)]
            /\ ph_cfg' = ph_cfg
       ELSE /\ ph_cfg' = [ph_cfg EXCEPT ![p[1]] = ModeCfg(@, p[2], new)]
            /\ pl_cfg' = pl_cfg
    /\ gpio_last' = [op |-> op, pin |-> p, pull |-> ModePullWrite(cur, new)]
    /\ UNCHANGED <<rccVars, busVars, altVars, drvVars>>

-----------------------------------------------------------------------------
(* gpio: state after GpioExt::split, which resets the port *)

MaxNest == 2

InitGpio ==
    /\ pl_cfg = [port \in Ports |-> [b \in 0..31 |-> IF b % 4 = 2 THEN 1 ELSE 0]]
    /\ ph_cfg = [port \in Ports |-> [b \in 0..31 |-> IF b % 4 = 2 THEN 1 ELSE 0]]
    /\ pod = [port \in Ports |-> [n \in 0..15 |-> 0]]
    /\ typestate = [p \in Pins |-> "InputFloating"]
    /\ frames = << >>
    /\ gpio_last = [op |-> "split", pin |-> <<"A", 1>>, pull |-> "none"]

-----------------------------------------------------------------------------
(* gpio: the into_<mode> conversions of an owned pin *)

\* Pin::into_mode, after the caller has left POD as pd
Into(p, new, pd, op) ==
    /\ ~Borrowed(p)
    /\ typestate' = [typestate EXCEPT ![p] = new]
    /\ frames' = frames
    /\ PinModeOp(p, typestate[p], new, pd, op)

\* Pin<P, N, Alternate<PushPull>>::set_open_drain
SetOpenDrain ==
    \E p \in Pins :
        /\ typestate[p] = "AlternatePushPull"
        /\ Into(p, "AlternateOpenDrain", pod, "into")

IntoAlternate ==
    \E p \in Pins : Into(p, "AlternatePushPull", pod, "into")

IntoAlternateOpenDrain ==
    \E p \in Pins :
        Into(p, "AlternateOpenDrain", pod, "into")

IntoFloatingInput ==
    \E p \in Pins : Into(p, "InputFloating", pod, "into")

IntoPullDownInput ==
    \E p \in Pins : Into(p, "InputPullDown", pod, "into")

IntoPullUpInput ==
    \E p \in Pins : Into(p, "InputPullUp", pod, "into")

IntoOpenDrainOutput ==
    \E p \in Pins : Into(p, "OutputOpenDrain", pod, "into")

IntoOpenDrainOutputInState ==
    \E p \in Pins, high \in BOOLEAN :
        Into(p, "OutputOpenDrain", SetState(pod, p, high),
             "into")

IntoPushPullOutput ==
    \E p \in Pins :
        Into(p, "OutputPushPull", PodClear(pod, p), "into")

IntoPushPullOutputInState ==
    \E p \in Pins, high \in BOOLEAN :
        Into(p, "OutputPushPull", SetState(pod, p, high),
             "into")

IntoAnalog == \E p \in Pins : Into(p, "Analog", pod, "into")

-----------------------------------------------------------------------------
(* gpio: the with_<mode> scoped conversions *)

\* the hardware configuration a mode stands for, as found on pin p: its CNF
\* and MODE fields and, for a mode with a pull direction, its POD bit; a
\* with_<mode> frame keeps the one found when it was called
HwConfig(p, m) ==
    [cnf |-> PinCnfBits(p[1], p[2]), mode |-> PinModeBits(p[1], p[2]),
     pull |-> IF PULL(m) = None THEN None ELSE Some(pod[p[1]][p[2]] = 1)]

\* Pin::with_mode up to the call of the closure
WithMode(p, new, pd, op) ==
    /\ Len(frames) < MaxNest
    /\ frames' = Append(frames, [pin |-> p, mode |-> new, orig |-> CurrentMode(p),
                                 before |-> HwConfig(p, CurrentMode(p))])
    /\ typestate' = typestate
    /\ PinModeOp(p, CurrentMode(p), new, pd, op)

WithFloatingInput ==
    \E p \in Pins : WithMode(p, "InputFloating", pod, "with")

WithPullUpInput ==
    \E p \in Pins : WithMode(p, "InputPullUp", pod, "with")

WithPullDownInput ==
    \E p \in Pins : WithMode(p, "InputPullDown", pod, "with")

WithAnalog == \E p \in Pins : WithMode(p, "Analog", pod, "with")

WithOpenDrainOutput ==
    \E p \in Pins : WithMode(p, "OutputOpenDrain", pod, "with")

WithOpenDrainOutputInState ==
    \E p \in Pins, high \in BOOLEAN :
        WithMode(p, "OutputOpenDrain", SetState(pod, p, high),
                 "with")

WithPushPullOutput ==
    \E p \in Pins : WithMode(p, "OutputPushPull", pod, "with")

WithPushPullOutputInState ==
    \E p \in Pins, high \in BOOLEAN :
        WithMode(p, "OutputPushPull", SetState(pod, p, high),
                 "with")

\* Drop for ResetMode: the closure of the innermost with_<mode> call has
\* returned or unwound
ResetModeDrop ==
    /\ frames # << >>
    /\ LET top == frames[Len(frames)]
       IN  /\ frames' = SubSeq(frames, 1, Len(frames) - 1)
           /\ typestate' = typestate
           /\ PinModeOp(top.pin, top.mode, top.orig, pod, "drop")

-----------------------------------------------------------------------------
(* gpio: the operations of an output pin *)

Output(p, pd, op) ==
    /\ IsOutput(CurrentMode(p))
    /\ pod' = pd
    /\ gpio_last' = [op |-> op, pin |-> p, pull |-> "none"]
    /\ UNCHANGED <<pl_cfg, ph_cfg, typestate, frames>>
    /\ UNCHANGED <<rccVars, busVars, altVars, drvVars>>

set_high == \E p \in Pins : Output(p, PodSet(pod, p), "output")

set_low == \E p \in Pins : Output(p, PodClear(pod, p), "output")

\* Pin::_is_set_low
is_set_low(p) == pod[p[1]][p[2]] = 0

toggle ==
    \E p \in Pins :
        Output(p, IF is_set_low(p) THEN PodSet(pod, p) ELSE PodClear(pod, p),
               "output")

-----------------------------------------------------------------------------
(* gpio: the slew rate of a pin *)

\* enum Speed, by discriminant: Low = 1, Medium = 2, High = 3
Speed == {1, 2, 3}

\* the modes that implement marker::OutputSpeed: Output<_> and Alternate<_>
OutputSpeed ==
    {"OutputOpenDrain", "OutputPushPull", "AlternatePushPull",
     "AlternateInput", "AlternateOpenDrain"}

\* let offset = 2 * { N };
SpeedOffset(n) == 2 * n

\* Pin::set_speed: the modify() that replaces the two bits at offset
SetSpeed(p, speed) ==
    /\ CurrentMode(p) \in OutputSpeed
    /\ IF p[2] < 8
       THEN /\ pl_cfg' = [pl_cfg EXCEPT
                              ![p[1]] = WithField(@, SpeedOffset(p[2]), speed)]
            /\ ph_cfg' = ph_cfg
       ELSE /\ ph_cfg' = [ph_cfg EXCEPT
                              ![p[1]] = WithField(@, SpeedOffset(p[2]), speed)]
            /\ pl_cfg' = pl_cfg
    /\ gpio_last' = [op |-> "set_speed", pin |-> p, pull |-> "none"]
    /\ UNCHANGED <<pod, typestate, frames>>
    /\ UNCHANGED <<rccVars, busVars, altVars, drvVars>>

set_speed == \E p \in Pins, speed \in Speed : SetSpeed(p, speed)

-----------------------------------------------------------------------------
(* rcc: the bus a peripheral is gated by (rcc/enable.rs) *)

Buses == {"AHB", "APB1", "APB2"}

\* the bus! tables compiled for a device feature: <<peripheral, bus, bit>>
bus(dev) ==
    (IF dev \in {"n32g401", "n32g430"}
     THEN {<<"GPIOA", "AHB", 7>>, <<"GPIOB", "AHB", 8>>, <<"GPIOC", "AHB", 9>>,
           <<"GPIOD", "AHB", 10>>}
     ELSE {<<"GPIOA", "APB2", 2>>, <<"GPIOB", "APB2", 3>>,
           <<"GPIOC", "APB2", 4>>, <<"GPIOD", "APB2", 5>>})
    \cup (IF dev = "n32g451"
          THEN {<<"GPIOE", "APB2", 6>>, <<"GPIOF", "APB2", 7>>,
                <<"GPIOG", "APB2", 8>>}
          ELSE {})
    \cup {<<"CRC", "AHB", 6>>, <<"ADC1", "AHB", 12>>, <<"DMA1", "AHB", 0>>}
    \cup {<<"PWR", "APB1", 28>>, <<"I2C2", "APB1", 22>>, <<"I2C1", "APB1", 21>>,
          <<"USART2", "APB1", 17>>, <<"WWDG", "APB1", 11>>,
          <<"COMP", "APB1", 6>>, <<"TIM6", "APB1", 4>>, <<"TIM5", "APB1", 3>>,
          <<"TIM4", "APB1", 2>>, <<"TIM3", "APB1", 1>>, <<"TIM2", "APB1", 0>>}
    \cup {<<"USART1", "APB2", 14>>, <<"TIM8", "APB2", 13>>,
          <<"SPI1", "APB2", 12>>, <<"TIM1", "APB2", 11>>, <<"AFIO", "APB2", 0>>}
    \cup (IF dev = "n32g451"
          THEN {<<"ADC4", "AHB", 15>>, <<"ADC3", "AHB", 14>>,
                <<"ADC2", "AHB", 13>>, <<"SDIO", "AHB", 10>>,
                <<"DMA2", "AHB", 1>>,
                <<"I2C4", "APB2", 20>>, <<"I2C3", "APB2", 19>>,
                <<"UART7", "APB2", 18>>, <<"UART6", "APB2", 17>>,
                <<"BKP", "APB1", 27>>, <<"UART5", "APB1", 20>>,
                <<"UART4", "APB1", 19>>, <<"SPI3", "APB1", 15>>,
                <<"SPI2", "APB1", 14>>}
          ELSE {})
    \cup (IF dev \in {"n32g401", "n32g430", "n32g432"}
          THEN {<<"SPI2", "APB2", 19>>}
          ELSE {})
    \cup (IF dev \in {"n32g401", "n32g430"}
          THEN {<<"UART4", "APB2", 18>>, <<"UART3", "APB2", 17>>,
                <<"BEEP", "APB2", 1>>,
                <<"TIM9", "APB1", 9>>, <<"AFEC", "APB1", 8>>}
          ELSE {<<"DAC", "APB1", 29>>, <<"USB", "APB1", 23>>,
                <<"USART3", "APB1", 18>>, <<"TSC", "APB1", 10>>,
                <<"TIM7", "APB1", 5>>})
    \cup (IF dev = "n32g432"
          THEN {<<"SPI2", "APB2", 19>>, <<"UART5", "APB2", 18>>,
                <<"UART4", "APB2", 17>>}
          ELSE {})
    \cup (IF dev # "n32g401" THEN {<<"CAN1", "APB1", 25>>} ELSE {})

\* the impls the tables expand to, by device and peripheral
Impls ==
    [dev \in Devices |->
        [per \in {e[1] : e \in bus(dev)} |->
            CHOOSE e \in bus(dev) : e[1] = per]]

\* the types that implement RccBus, Enable and Reset
Peripherals == DOMAIN Impls[device]

\* RccBus::Bus
Bus(per) == Impls[device][per][2]

\* mutant: every peripheral is given bit 0 of its bus
MutBitZero(per) == 0

\* the $bit of bus_enable! and bus_reset!
Bit(per) == Impls[device][per][3]

\* bb::set and bb::clear: one store to the bit-band alias word of the bit,
\* which changes that bit of the register and no other
bb_set(reg, bit) == reg \cup {bit}

bb_clear(reg, bit) == reg \ {bit}

\* mutant: the enable state is read from the reset register
MutIsEnabledReadsPrst(per) == Bit(per) \in prst[Bus(per)]

\* Enable::is_enabled
is_enabled(per) == Bit(per) \in pclken[Bus(per)]

\* the peripherals the operations below are applied to
OpPers == {"GPIOA", "AFIO", "SPI1", "USART1", "DMA1", "UART4"}

\* the last access made, "none" before the first
Last(s) == IF s = << >> THEN "none" ELSE s[Len(s)]

\* the main program is between two calls
MainIdle ==
    \/ bus_pc.kind = "none"
    \/ Last(bus_pc.log) \in {"return", "err"}
    \/ bus_pc.kind = "reset" /\ Last(bus_pc.log) = "rst_clear"

\* a call is made by the main program between two of its calls, or by an
\* interrupt handler in the middle of one, on another peripheral
MayCall(x) == MainIdle \/ x # bus_pc.per

InitBus ==
    /\ pclken = [b \in Buses |-> {}]
    /\ prst = [b \in Buses |-> {}]
    /\ bus_pc = [kind |-> "none", per |-> "none", log |-> << >>]
    /\ want = [x \in OpPers |-> FALSE]

\* Enable::enable
enable(x) ==
    /\ MayCall(x)
    /\ pclken' = [pclken EXCEPT ![Bus(x)] = bb_set(@, Bit(x))]
    /\ want' = [want EXCEPT ![x] = TRUE]
    /\ UNCHANGED <<prst, bus_pc>>
    /\ UNCHANGED <<rccVars, gpioVars, altVars, drvVars>>

\* Enable::disable
disable(x) ==
    /\ MayCall(x)
    /\ pclken' = [pclken EXCEPT ![Bus(x)] = bb_clear(@, Bit(x))]
    /\ want' = [want EXCEPT ![x] = FALSE]
    /\ UNCHANGED <<prst, bus_pc>>
    /\ UNCHANGED <<rccVars, gpioVars, altVars, drvVars>>

\* Reset::reset, first statement
reset_set(x) ==
    /\ MainIdle
    /\ prst' = [prst EXCEPT ![Bus(x)] = bb_set(@, Bit(x))]
    /\ bus_pc' = [kind |-> "reset", per |-> x, log |-> <<"rst_set">>]
    /\ UNCHANGED <<pclken, want>>
    /\ UNCHANGED <<rccVars, gpioVars, altVars, drvVars>>

\* Reset::reset, second statement
reset_clear ==
    /\ bus_pc.kind = "reset"
    /\ Last(bus_pc.log) = "rst_set"
    /\ prst' = [prst EXCEPT ![Bus(bus_pc.per)] = bb_clear(@, Bit(bus_pc.per))]
    /\ bus_pc' = [bus_pc EXCEPT !.log = Append(@, "rst_clear")]
    /\ UNCHANGED <<pclken, want>>
    /\ UNCHANGED <<rccVars, gpioVars, altVars, drvVars>>

Enable == \E x \in OpPers : enable(x)

Disable == \E x \in OpPers : disable(x)

Reset == \E x \in OpPers : reset_set(x)

-----------------------------------------------------------------------------
(* rcc: BusClock and BusTimerClock *)

\* the timers of the device
Timers ==
    {"TIM1", "TIM2", "TIM3", "TIM4", "TIM5", "TIM6", "TIM7", "TIM8", "TIM9"}
        \cap Peripherals

\* BusTimerClock::timer_clock of APB1 and APB2
BusTimerClock(b, c) == IF b = "APB1" THEN c.pclk1 ELSE c.pclk2

\* BusTimerClock::timer_clock of a peripheral: the specialised impls of
\* Tim1 and Tim8, the blanket impl for the others
timer_clock(per, c) ==
    IF per \in {"TIM1", "TIM8"}
    THEN BusTimerClock("APB2", c) * 2
    ELSE BusTimerClock(Bus(per), c)

-----------------------------------------------------------------------------
(* The constructors of the peripherals, by their accesses *)

Ctors ==
    {"GpioExt::split", "AfioExt::constrain", "Spi::new",
     "RegisterBlockImpl::new", "DmaExt::split"}

\* the peripheral a constructor makes
CtorPer(k) ==
    CASE k = "GpioExt::split" -> "GPIOA"
      [] k = "AfioExt::constrain" -> "AFIO"
      [] k = "Spi::new" -> "SPI1"
      [] k = "RegisterBlockImpl::new" -> "USART1"
      [] k = "DmaExt::split" -> "DMA1"

\* mutant: Spi::new configures the SPI before the reset pulse
MutCtorStepsAccessBeforeReset(k) ==
    CASE k \in {"GpioExt::split", "AfioExt::constrain"} ->
             <<"enable", "rst_set", "rst_clear", "return">>
      [] k = "Spi::new" ->
             <<"enable", "access", "rst_set", "rst_clear", "return">>
      [] k = "RegisterBlockImpl::new" ->
             <<"enable", "rst_set", "rst_clear", "access", "return">>
      [] k = "DmaExt::split" -> <<"enable", "access", "return">>

\* the statements of a constructor, in program order: the bus clock enable,
\* the two writes of the reset pulse, the accesses to the registers of the
\* peripheral itself, the return of the handle
CtorSteps(k) ==
    CASE k \in {"GpioExt::split", "AfioExt::constrain"} ->
             <<"enable", "rst_set", "rst_clear", "return">>
      [] k \in {"Spi::new", "RegisterBlockImpl::new"} ->
             <<"enable", "rst_set", "rst_clear", "access", "return">>
      [] k = "DmaExt::split" -> <<"enable", "access", "return">>

\* the statement the running constructor is at
CtorAt ==
    IF bus_pc.kind \in Ctors /\ Len(bus_pc.log) < Len(CtorSteps(bus_pc.kind))
       /\ Last(bus_pc.log) # "err"
    THEN CtorSteps(bus_pc.kind)[Len(bus_pc.log) + 1]
    ELSE "none"

CtorStep(at) ==
    /\ CtorAt = at
    /\ bus_pc' = [bus_pc EXCEPT !.log = Append(@, at)]
    /\ UNCHANGED <<rccVars, gpioVars, altVars, drvVars>>

\* X::enable_unchecked() / X::enable(rcc), the first statement
CtorEnable ==
    \E k \in Ctors :
        /\ MainIdle
        /\ pclken' = [pclken EXCEPT ![Bus(CtorPer(k))] = bb_set(@, Bit(CtorPer(k)))]
        /\ want' = [want EXCEPT ![CtorPer(k)] = TRUE]
        /\ bus_pc' = [kind |-> k, per |-> CtorPer(k), log |-> <<"enable">>]
        /\ UNCHANGED prst
        /\ UNCHANGED <<rccVars, gpioVars, altVars, drvVars>>

\* X::reset_unchecked() / X::reset(rcc)
CtorResetSet ==
    /\ CtorStep("rst_set")
    /\ prst' = [prst EXCEPT ![Bus(bus_pc.per)] = bb_set(@, Bit(bus_pc.per))]
    /\ UNCHANGED <<pclken, want>>

CtorResetClear ==
    /\ CtorStep("rst_clear")
    /\ prst' = [prst EXCEPT ![Bus(bus_pc.per)] = bb_clear(@, Bit(bus_pc.per))]
    /\ UNCHANGED <<pclken, want>>

\* the writes to the registers of the peripheral
CtorAccess ==
    /\ CtorStep("access")
    /\ UNCHANGED <<pclken, prst, want>>

\* return Err(config::InvalidConfig), before any register of the USART
CtorErr ==
    /\ bus_pc.kind = "RegisterBlockImpl::new"
    /\ CtorAt = "access"
    /\ bus_pc' = [bus_pc EXCEPT !.log = Append(@, "err")]
    /\ UNCHANGED <<pclken, prst, want>>
    /\ UNCHANGED <<rccVars, gpioVars, altVars, drvVars>>

CtorReturn ==
    /\ CtorStep("return")
    /\ UNCHANGED <<pclken, prst, want>>

-----------------------------------------------------------------------------
(* gpio::alt: pins, signals and remappers of SPI3, USART1, USART3, UART7 *)

AltPers == {"SPI3", "USART1", "USART3", "UART7"}

\* the remapper markers of a peripheral, with the value their
\* Remap::remap gives to the remap field of the peripheral in AFIO
Remap ==
    {<<"SPI3", "NoRemap", 0>>, <<"SPI3", "PartialRemapOne", 1>>,
     <<"SPI3", "PartialRemapTwo", 2>>, <<"SPI3", "FullRemap", 3>>,
     <<"USART1", "NoRemap", 0>>, <<"USART1", "FullRemap", 1>>,
     <<"USART3", "NoRemap", 0>>, <<"USART3", "PartialRemap", 1>>,
     <<"USART3", "FullRemap", 3>>,
     <<"UART7", "NoRemap", 0>>, <<"UART7", "PartialRemap", 1>>,
     <<"UART7", "FullRemap", 3>>}

Remappers(per) == {e[2] : e \in {r \in Remap : r[1] = per}}

\* the width of the remap field of a peripheral, which bits() masks to
RmpWidth(per) == IF per = "USART1" THEN 1 ELSE 2

\* Remap::remap of a marker: the modify() of the one field
remap(afio, per, rmp) ==
    [afio EXCEPT ![per] = (CHOOSE e \in Remap : e[1] = per /\ e[2] = rmp)[3]
                              % (2 ^ RmpWidth(per))]

\* the impl RemapIO<PER, Remapper> for <pin> items: <<PER, Remapper, pin>>
RemapIO ==
    {<<"SPI3", "NoRemap", p>> : p \in {"PA15", "PB3", "PB4", "PB5"}}
    \cup {<<"SPI3", "PartialRemapOne", p>> : p \in {"PD2", "PC10", "PC11", "PC12"}}
    \cup {<<"SPI3", "PartialRemapTwo", p>> : p \in {"PD8", "PD9", "PD11", "PD12"}}
    \cup {<<"SPI3", "FullRemap", p>> : p \in {"PC2", "PC3", "PA0", "PA1"}}
    \cup {<<"USART1", "NoRemap", p>> : p \in {"PA9", "PA10"}}
    \cup {<<"USART1", "FullRemap", p>> : p \in {"PB6", "PB7"}}
    \cup {<<"USART3", "NoRemap", p>> :
              p \in {"PB10", "PB11", "PB12", "PB13", "PB14"}}
    \cup {<<"USART3", "PartialRemap", p>> :
              p \in {"PC10", "PC11", "PC12", "PB13", "PB14", "PD8", "PD9",
                     "PD10", "PD11", "PD12"}}
    \cup {<<"UART7", "NoRemap", p>> : p \in {"PC12", "PD2"}}
    \cup {<<"UART7", "PartialRemap", p>> : p \in {"PB13", "PB14"}}
    \cup {<<"UART7", "FullRemap", p>> : p \in {"PB8", "PB9"}}

\* the pin! tables: <<peripheral, signal wrapper, pin>>, one From impl and
\* one enum variant each
Wrapper ==
    {<<"SPI3", "Nss", p>> : p \in {"PA15", "PD2", "PD8", "PC2"}}
    \cup {<<"SPI3", "Sck", p>> : p \in {"PB3", "PC10", "PD9", "PC3"}}
    \cup {<<"SPI3", "Miso", p>> : p \in {"PB4", "PC10", "PD9", "PA0"}}
    \cup {<<"SPI3", "Mosi", p>> : p \in {"PB5", "PC12", "PD12", "PA1"}}
    \cup {<<"USART1", "Ck", "PA8">>, <<"USART1", "Cts", "PA11">>,
          <<"USART1", "Rts", "PA12">>}
    \cup {<<"USART1", "Rx", p>> : p \in {"PA10", "PB7"}}
    \cup {<<"USART1", "Tx", p>> : p \in {"PA9", "PB6"}}
    \cup {<<"USART3", "Ck", p>> : p \in {"PB12", "PC12", "PD10"}}
    \cup {<<"USART3", "Cts", p>> : p \in {"PB13", "PD11"}}
    \cup {<<"USART3", "Rts", p>> : p \in {"PB14", "PD12"}}
    \cup {<<"USART3", "Rx", p>> : p \in {"PB10", "PC10", "PD8"}}
    \cup {<<"USART3", "Tx", p>> : p \in {"PB11", "PC11", "PD10"}}
    \cup {<<"UART7", "Rx", p>> : p \in {"PC5", "PC3", "PG1"}}
    \cup {<<"UART7", "Tx", p>> : p \in {"PC4", "PC2", "PG0"}}

\* the pins that satisfy the bound RemapIO<per, rmp> + Into<per::sig>
Bound(per, rmp, sig) ==
    {e[3] : e \in {w \in Wrapper : w[1] = per /\ w[2] = sig
                                   /\ <<per, rmp, w[3]>> \in RemapIO}}

\* the pin tuples a constructor with the required signals sigs compiles
\* for: one owned pin for each signal, each within the bound
Accepted(per, rmp, sigs) ==
    {pins \in [sigs -> {e[3] : e \in {w \in Wrapper : w[1] = per}}] :
        /\ \A s \in sigs : pins[s] \in Bound(per, rmp, s)
        /\ \A s, t \in sigs : s # t => pins[s] # pins[t]}

\* the signals the full constructor of a peripheral takes pins for
Required(per) ==
    IF per = "SPI3" THEN {"Sck", "Miso", "Mosi"} ELSE {"Tx", "Rx"}

InitAlt ==
    /\ afio_rmp = [per \in AltPers |-> 0]
    /\ alt = [op |-> "none", per |-> "none", rmp |-> "none", pins |-> << >>,
              ret |-> "none"]

\* From<gpio::PX<MODE>> for a signal wrapper
From ==
    \E w \in Wrapper :
        /\ alt' = [op |-> "from", per |-> w[1], rmp |-> "none",
                   pins |-> [s \in {w[2]} |-> w[3]], ret |-> "wrapper"]
        /\ UNCHANGED afio_rmp
        /\ UNCHANGED <<rccVars, gpioVars, busVars, drvVars>>

\* a constructor of SpiExt or SerialExt for pins within its bounds
Construct(op, pers, sigs, remaps, rets) ==
    \E per \in pers :
        \E rmp \in Remappers(per), ret \in rets :
            \E pins \in Accepted(per, rmp, sigs) :
                /\ afio_rmp' = IF remaps THEN remap(afio_rmp, per, rmp)
                               ELSE afio_rmp
                /\ alt' = [op |-> op, per |-> per, rmp |-> rmp, pins |-> pins,
                           ret |-> ret]
                /\ UNCHANGED <<rccVars, gpioVars, busVars, drvVars>>

spi == Construct("spi", {"SPI3"}, Required("SPI3"), TRUE, {"handle"})

spi_bidi == Construct("spi_bidi", {"SPI3"}, {"Sck", "Mosi"}, TRUE, {"handle"})

spi_rxonly ==
    Construct("spi_rxonly", {"SPI3"}, {"Sck", "Miso"}, TRUE, {"handle"})

\* has no afio argument and makes no call of RMP::remap
spi_slave ==
    \/ Construct("spi_slave", {"SPI3"}, Required("SPI3"), FALSE, {"handle"})
    \/ Construct("spi_slave", {"SPI3"}, Required("SPI3") \cup {"Nss"}, FALSE,
                 {"handle"})

\* Err(InvalidConfig) comes from Serial::new, after the remap
serial ==
    Construct("serial", {"USART1", "USART3", "UART7"}, Required("USART1"), TRUE,
              {"handle", "err"})

tx == Construct("tx", {"USART1", "USART3", "UART7"}, {"Tx"}, TRUE,
                {"handle", "err"})

rx == Construct("rx", {"USART1", "USART3", "UART7"}, {"Rx"}, TRUE,
                {"handle", "err"})

-----------------------------------------------------------------------------
(* serial: RegisterBlockImpl::new, the constructor behind SerialExt *)

\* the UARTs the constructor is called for
SerialPers == {"USART1", "USART2", "UART4"}

\* Clocks values freeze() returns on n32g451: the default configuration,
\* sysclk(64 MHz) and sysclk(144 MHz)
SerialClocks ==
    {[sysclk |-> 16000000, hclk |-> 16000000, pclk1 |-> 16000000, pclk2 |-> 16000000],
     [sysclk |-> 64000000, hclk |-> 64000000, pclk1 |-> 32000000, pclk2 |-> 64000000],
     [sysclk |-> 144000000, hclk |-> 144000000, pclk1 |-> 36000000, pclk2 |-> 72000000]}

\* config.baudrate.0
BaudChoices ==
    {0, 9600, 115200, 1000000, 1000001, 2250000, 4500000, 4500001}

\* BusClock::clock of AHB, APB1 and APB2
BusClock(b, c) ==
    CASE b = "AHB" -> c.hclk
      [] b = "APB1" -> c.pclk1
      [] b = "APB2" -> c.pclk2

\* BusClock::clock of a peripheral
clock(per, c) == BusClock(Bus(per), c)

\* mutant: the test admits every baud rate up to the bus clock
MutBaudInRangeNoOversampling(pclk_freq, baud) == pclk_freq >= baud

\* if (pclk_freq / 16) >= baud
BaudInRange(pclk_freq, baud) == pclk_freq \div 16 >= baud

\* (25 * pclk_freq) / (4 * baud) panics: the divisor is 0.  The products
\* stay inside u32: a bus clock is at most 72 MHz and baud at most a
\* sixteenth of it
DividerPanics(pclk_freq, baud) == 4 * baud = 0

\* integerdivider
IntegerDivider(pclk_freq, baud) == (25 * pclk_freq) \div (4 * baud)

\* fractionaldivider, from the tmpregister of the integer part
FractionalDivider(integerdivider) ==
    ((integerdivider - 100 * (integerdivider \div 100)) * 16 + 50) \div 100

\* div: the mantissa in bits 4 and above, one more when the fraction
\* rounds to 16, and the low four bits of the fraction
BrcfDiv(pclk_freq, baud) ==
    LET integerdivider == IntegerDivider(pclk_freq, baud)
        fractionaldivider == FractionalDivider(integerdivider)
        tmpregister ==
            IF fractionaldivider \div 16 = 1
            THEN (integerdivider \div 100 + 1) * 16
            ELSE (integerdivider \div 100) * 16
    IN  tmpregister + (fractionaldivider % 16)

\* how the call ends
SerialResult(pclk_freq, baud) ==
    IF ~BaudInRange(pclk_freq, baud) THEN "err"
    ELSE IF DividerPanics(pclk_freq, baud) THEN "panic"
    ELSE "ok"

InitUart ==
    uart = [per |-> "none", pclk_freq |-> 0, baud |-> 0, result |-> "none",
            brcf |-> 0, uen |-> FALSE]

\* RegisterBlockImpl::new: the bus clock enable and the reset pulse, the
\* divider, and with a divider the writes of brcf and of ctrl1.uen.  A
\* panic ends the program, and a handle is held until it is released
SerialNew ==
    \E per \in SerialPers, c \in SerialClocks, baud \in BaudChoices :
        LET pclk_freq == clock(per, c)
            result == SerialResult(pclk_freq, baud)
        IN  /\ uart.result \notin {"panic", "ok"}
            /\ pclken' = [pclken EXCEPT ![Bus(per)] = bb_set(@, Bit(per))]
            /\ want' = want
            /\ uart' = [per |-> per, pclk_freq |-> pclk_freq, baud |-> baud,
                        result |-> result,
                        brcf |-> IF result = "ok" THEN BrcfDiv(pclk_freq, baud)
                                 ELSE 0,
                        uen |-> result = "ok"]
            /\ UNCHANGED <<prst, bus_pc>>
            /\ UNCHANGED <<rccVars, gpioVars, altVars, i2c, nor, circ>>

\* Serial::release: the handle is given up and the UART can be built again
SerialRelease ==
    /\ uart.result = "ok"
    /\ uart' = [uart EXCEPT !.result = "released"]
    /\ UNCHANGED <<rccVars, gpioVars, busVars, altVars, i2c, nor, circ>>

-----------------------------------------------------------------------------
(* i2c::dma: I2CMasterDma with a transmit and a receive channel *)

\* slave addresses and the lengths of bytes and of buf
I2cAddrs == {80, 81}
BufLens == {1, 2}

\* how send_start and send_address end: Ok, NoAcknowledge of the address,
\* or another error of check_and_clear_error_flags
Outcomes == {"ok", "nack", "arlost"}

StartEv(rw, addr) == [ev |-> rw, addr |-> addr]
StopEv == [ev |-> "stop", addr |-> 0]

InitI2c ==
    i2c = [state |-> "Idle", address |-> 0, rx_len |-> 0,
           tx_transfer |-> FALSE, rx_transfer |-> FALSE,
           tx_on |-> FALSE, rx_on |-> FALSE,
           tx_status |-> "TransferInProgress",
           rx_status |-> "TransferInProgress",
           dmaen |-> FALSE, dmalast |-> FALSE, acken |-> FALSE,
           errinten |-> FALSE, busy |-> FALSE, stopgen |-> FALSE,
           err |-> "none", log |-> << >>, op |-> "none", ret |-> "none"]

\* ctrl1.stopgen
send_stop(r) == [r EXCEPT !.stopgen = TRUE, !.log = Append(@, StopEv)]

\* TxDMATransfer and RxDMATransfer: create_transfer and destroy_transfer
create_tx(r) ==
    [r EXCEPT !.tx_transfer = TRUE, !.tx_on = FALSE,
              !.tx_status = "TransferInProgress"]
destroy_tx(r) == [r EXCEPT !.tx_transfer = FALSE, !.tx_on = FALSE]
create_rx(r) ==
    [r EXCEPT !.rx_transfer = TRUE, !.rx_on = FALSE,
              !.rx_status = "TransferInProgress"]
destroy_rx(r) == [r EXCEPT !.rx_transfer = FALSE, !.rx_on = FALSE]

\* start and address for a write; the bus is taken unless the start fails
prepare_write(r, addr, outcome) ==
    CASE outcome = "ok" ->
             [r EXCEPT !.busy = TRUE, !.errinten = TRUE,
                       !.log = Append(@, StartEv("start_w", addr))]
      [] outcome = "nack" ->
             [r EXCEPT !.busy = TRUE,
                       !.log = Append(@, StartEv("start_w", addr))]
      [] OTHER -> r

\* start and address for a read, with ACK and DMALAST by the length
prepare_read(r, addr, buf_len, outcome) ==
    CASE outcome = "ok" ->
             [r EXCEPT !.busy = TRUE, !.errinten = TRUE,
                       !.acken = buf_len >= 2, !.dmalast = buf_len >= 2,
                       !.log = Append(@, StartEv("start_r", addr))]
      [] outcome = "nack" ->
             [r EXCEPT !.busy = TRUE, !.acken = TRUE,
                       !.log = Append(@, StartEv("start_r", addr))]
      [] OTHER -> [r EXCEPT !.acken = TRUE]

\* finish_transfer_with_result: a stop after NoAcknowledge only, and both
\* transfers destroyed
finish_transfer_with_result(r, result) ==
    LET off == [r EXCEPT !.dmaen = FALSE, !.errinten = FALSE,
                         !.dmalast = FALSE]
        stopped == IF result = "nack" THEN send_stop(off) ELSE off
    IN  destroy_rx(destroy_tx(stopped))

\* the three *_dma calls up to create_transfer
Called ==
    [i2c EXCEPT !.dmaen = TRUE, !.log = << >>, !.op = "none"]

\* write_dma
write_dma ==
    \E addr \in I2cAddrs, outcome \in Outcomes :
        /\ i2c.ret # "panic"
        /\ i2c' =
               IF i2c.busy THEN [i2c EXCEPT !.ret = "WouldBlock"]
               ELSE IF i2c.tx_transfer THEN [i2c EXCEPT !.ret = "panic"]
               ELSE LET prepared ==
                            prepare_write(create_tx(Called),
                                          addr, outcome)
                    IN  IF outcome # "ok"
                        THEN [finish_transfer_with_result(prepared, outcome)
                                  EXCEPT !.ret = "Err"]
                        ELSE [prepared EXCEPT !.state = "Write",
                                              !.tx_on = TRUE,
                                              !.op = "write_dma",
                                              !.ret = "Ok"]
        /\ UNCHANGED <<rccVars, gpioVars, busVars, altVars, uart, nor, circ>>

\* read_dma
read_dma ==
    \E addr \in I2cAddrs, buf_len \in BufLens, outcome \in Outcomes :
        /\ i2c.ret # "panic"
        /\ i2c' =
               IF i2c.busy THEN [i2c EXCEPT !.ret = "WouldBlock"]
               ELSE IF i2c.rx_transfer THEN [i2c EXCEPT !.ret = "panic"]
               ELSE LET prepared ==
                            prepare_read(create_rx(Called),
                                         addr, buf_len, outcome)
                    IN  IF outcome # "ok"
                        THEN [finish_transfer_with_result(prepared, outcome)
                                  EXCEPT !.ret = "Err"]
                        ELSE [prepared EXCEPT !.state = "Read",
                                              !.rx_on = TRUE,
                                              !.op = "read_dma",
                                              !.ret = "Ok"]
        /\ UNCHANGED <<rccVars, gpioVars, busVars, altVars, uart, nor, circ>>

\* self.state = I2CMasterDmaState::Write; the WriteRead(ptr, len) of the
\* comment is not what is stored
WriteReadState(buf_len) == "Write"

\* write_read_dma
write_read_dma ==
    \E addr \in I2cAddrs, buf_len \in BufLens, outcome \in Outcomes :
        /\ i2c.ret # "panic"
        /\ i2c' =
               IF i2c.busy THEN [i2c EXCEPT !.ret = "WouldBlock"]
               ELSE IF i2c.tx_transfer
               THEN [i2c EXCEPT !.address = addr, !.rx_len = buf_len,
                                !.dmaen = TRUE, !.ret = "panic"]
               ELSE LET set == [Called
                                    EXCEPT !.address = addr,
                                           !.rx_len = buf_len]
                        stated == [create_tx(set)
                                       EXCEPT !.state = WriteReadState(buf_len)]
                        prepared == prepare_write(stated, addr, outcome)
                    IN  IF outcome # "ok"
                        THEN [finish_transfer_with_result(prepared, outcome)
                                  EXCEPT !.ret = "Err"]
                        ELSE [prepared EXCEPT !.tx_on = TRUE,
                                              !.op = "write_read_dma",
                                              !.ret = "Ok"]
        /\ UNCHANGED <<rccVars, gpioVars, busVars, altVars, uart, nor, circ>>

\* handle_dma_interrupt, the transmit channel
HandleTx(r, outcome) ==
    LET cleared == [r EXCEPT !.tx_status = "TransferInProgress"]
        have_read_after == r.state = "WriteRead"
        destroyed == destroy_tx(cleared)
        finished ==
            IF ~have_read_after
            THEN [finish_transfer_with_result(destroyed, "ok")
                      EXCEPT !.state = "Idle"]
            ELSE destroyed
        prepared ==
            prepare_read(create_rx(finished), r.address, r.rx_len, outcome)
    IN  CASE r.tx_status = "TransferInProgress" ->
                 [r EXCEPT !.ret = "TransferComplete"]
          [] r.tx_status = "TransferComplete" ->
                 IF have_read_after
                 THEN IF outcome # "ok"
                      THEN [finish_transfer_with_result(prepared, outcome)
                                EXCEPT !.ret = "Err"]
                      ELSE [prepared EXCEPT !.state = "Read", !.rx_on = TRUE,
                                            !.ret = "TransferComplete"]
                 ELSE [send_stop(finished) EXCEPT !.ret = "TransferComplete"]
          [] r.tx_status = "TransferError" ->
                 [finish_transfer_with_result(cleared, "dma")
                      EXCEPT !.ret = "Err"]

\* handle_dma_interrupt, the receive channel
HandleRx(r) ==
    LET cleared == [r EXCEPT !.rx_status = "TransferInProgress"]
    IN  CASE r.rx_status = "TransferInProgress" ->
                 [r EXCEPT !.ret = "TransferComplete"]
          [] r.rx_status = "TransferComplete" ->
                 [send_stop([finish_transfer_with_result(cleared, "ok")
                                 EXCEPT !.acken = FALSE])
                      EXCEPT !.ret = "TransferComplete"]
          [] r.rx_status = "TransferError" ->
                 [finish_transfer_with_result(cleared, "dma")
                      EXCEPT !.ret = "Err"]

\* the interrupt of a channel that listens is pending
DmaPending ==
    \/ i2c.tx_transfer /\ i2c.tx_status # "TransferInProgress"
    \/ i2c.rx_transfer /\ i2c.rx_status # "TransferInProgress"

\* handle_dma_interrupt of the implementation for both channels
handle_dma_interrupt ==
    \E outcome \in Outcomes :
        /\ i2c.ret # "panic"
        /\ DmaPending
        /\ i2c' = IF i2c.tx_transfer THEN HandleTx(i2c, outcome)
                  ELSE IF i2c.rx_transfer THEN HandleRx(i2c)
                  ELSE [i2c EXCEPT !.ret = "TransferComplete"]
        /\ UNCHANGED <<rccVars, gpioVars, busVars, altVars, uart, nor, circ>>

\* handle_error_interrupt with an error flag set in sts1
handle_error_interrupt ==
    /\ i2c.ret # "panic"
    /\ i2c.err # "none"
    /\ i2c' = [finish_transfer_with_result(i2c, i2c.err)
                   EXCEPT !.err = "none", !.ret = "Err"]
    /\ UNCHANGED <<rccVars, gpioVars, busVars, altVars, uart, nor, circ>>

\* the DMA controller ends the transfer of a started channel
TxDmaEvent ==
    \E status \in {"TransferComplete", "TransferError"} :
        /\ i2c.tx_transfer /\ i2c.tx_on /\ i2c.dmaen
        /\ i2c.tx_status = "TransferInProgress"
        /\ i2c' = [i2c EXCEPT !.tx_status = status]
        /\ UNCHANGED <<rccVars, gpioVars, busVars, altVars, uart, nor, circ>>

RxDmaEvent ==
    \E status \in {"TransferComplete", "TransferError"} :
        /\ i2c.rx_transfer /\ i2c.rx_on /\ i2c.dmaen
        /\ i2c.rx_status = "TransferInProgress"
        /\ i2c' = [i2c EXCEPT !.rx_status = status]
        /\ UNCHANGED <<rccVars, gpioVars, busVars, altVars, uart, nor, circ>>

\* the I2C sets an error flag during a transfer, with the error interrupt
\* enabled
I2cErrorEvent ==
    \E e \in {"nack", "arlost"} :
        /\ i2c.busy /\ i2c.errinten /\ i2c.err = "none"
        /\ i2c' = [i2c EXCEPT !.err = e]
        /\ UNCHANGED <<rccVars, gpioVars, busVars, altVars, uart, nor, circ>>

\* the I2C sends the stop condition and leaves the bus
StopCondition ==
    /\ i2c.stopgen
    /\ i2c' = [i2c EXCEPT !.stopgen = FALSE, !.busy = FALSE]
    /\ UNCHANGED <<rccVars, gpioVars, busVars, altVars, uart, nor, circ>>

-----------------------------------------------------------------------------
(* fmc: Flash as ReadNorFlash and NorFlash *)

FLASH_BASE == 134217728
WRITE_SIZE == 4
ERASE_SIZE == 2048

\* the flash field of dbg_id: the size of the array in units of 64 KiB
DbgIdFlash == 2

\* Flash::capacity
capacity == DbgIdFlash * 65536

\* Flash::max_addr
max_addr == FLASH_BASE + capacity - 1

\* the offsets and lengths the calls are made with; FLASH_BASE + offset
\* and offset + len stay far below 2^32
EraseOffsets ==
    {0, 1000, ERASE_SIZE, 2 * ERASE_SIZE, capacity - ERASE_SIZE, capacity,
     capacity + ERASE_SIZE, capacity + 2 * ERASE_SIZE, FLASH_BASE}
WriteOffsets ==
    {0, 2, WRITE_SIZE, capacity - 2 * WRITE_SIZE, capacity - WRITE_SIZE,
     capacity, capacity + WRITE_SIZE, FLASH_BASE}
WriteLens == {0, 3, WRITE_SIZE, 2 * WRITE_SIZE}

InitNor ==
    nor = [op |-> "none", a |-> 0, b |-> 0, ret |-> "none", lock |-> TRUE,
           unlocked |-> FALSE, erased |-> {}, programmed |-> {}]

\* erase_page for every page of (from / ERASE_SIZE)..(to / ERASE_SIZE):
\* the addresses written to fmc.addr
ErasedPages(from, to) ==
    {FLASH_BASE + page * ERASE_SIZE :
         page \in (from \div ERASE_SIZE)..((to \div ERASE_SIZE) - 1)}

\* program_word for every chunk of four bytes: the addresses written
ProgrammedWords(offset, len) ==
    {FLASH_BASE + offset + i * WRITE_SIZE : i \in 0..((len \div 4) - 1)}

\* the checks of erase
EraseResult(from, to) ==
    IF from >= max_addr THEN "OutOfBounds"
    ELSE IF to > max_addr + 1 THEN "OutOfBounds"
    ELSE IF from % ERASE_SIZE # 0 \/ to % ERASE_SIZE # 0 THEN "NotAligned"
    ELSE "Ok"

\* the checks of write
WriteResult(offset, len) ==
    IF len % WRITE_SIZE # 0 THEN "NotAligned"
    ELSE IF offset % WRITE_SIZE # 0 THEN "NotAligned"
    ELSE IF offset + len > capacity THEN "OutOfBounds"
    ELSE "Ok"

\* the checks of read
ReadResult(offset, len) ==
    IF FLASH_BASE + offset > max_addr
           \/ FLASH_BASE + offset + len > max_addr + 1
    THEN "OutOfBounds"
    ELSE "Ok"

\* NorFlash::erase: unlock, the pages, lock
erase ==
    \E from \in EraseOffsets, to \in EraseOffsets :
        LET ret == EraseResult(from, to)
        IN  /\ nor' = [op |-> "erase", a |-> from, b |-> to, ret |-> ret,
                       lock |-> IF ret = "Ok" THEN TRUE ELSE nor.lock,
                       unlocked |-> ret = "Ok",
                       erased |-> IF ret = "Ok" THEN ErasedPages(from, to)
                                  ELSE {},
                       programmed |-> {}]
            /\ UNCHANGED <<rccVars, gpioVars, busVars, altVars, uart, i2c,
                           circ>>

\* NorFlash::write: unlock, the words, lock
write ==
    \E offset \in WriteOffsets, len \in WriteLens :
        LET ret == WriteResult(offset, len)
        IN  /\ nor' = [op |-> "write", a |-> offset, b |-> len, ret |-> ret,
                       lock |-> IF ret = "Ok" THEN TRUE ELSE nor.lock,
                       unlocked |-> ret = "Ok",
                       erased |-> {},
                       programmed |-> IF ret = "Ok"
                                      THEN ProgrammedWords(offset, len)
                                      ELSE {}]
            /\ UNCHANGED <<rccVars, gpioVars, busVars, altVars, uart, i2c,
                           circ>>

\* ReadNorFlash::read
read ==
    \E offset \in WriteOffsets, len \in WriteLens :
        /\ nor' = [op |-> "read", a |-> offset, b |-> len,
                   ret |-> ReadResult(offset, len), lock |-> nor.lock,
                   unlocked |-> FALSE, erased |-> {}, programmed |-> {}]
        /\ UNCHANGED <<rccVars, gpioVars, busVars, altVars, uart, i2c, circ>>

-----------------------------------------------------------------------------
(* dma: CircBuffer on a receive channel in circular mode *)

Half == {"First", "Second"}

\* CircBuffer::new after circ_read started the channel: the DMA writes the
\* first half, no half was filled, no flag is set
InitCirc ==
    circ = [readable_half |-> "Second", htxf |-> FALSE, txcf |-> FALSE,
            writing |-> "First", chen |-> TRUE,
            filled |-> [h \in Half |-> FALSE],
            pc |-> "idle", half_being_read |-> "none", overwritten |-> FALSE,
            ret |-> "none"]

\* the result of readable_half by the flags and the half read last
ReadableHalf(r) ==
    IF r.htxf /\ r.txcf THEN "Overrun"
    ELSE IF r.readable_half = "First"
    THEN IF r.txcf THEN "Second" ELSE "First"
    ELSE IF r.htxf THEN "First" ELSE "Second"

\* the record after readable_half: the flag of the new half is cleared
AfterReadableHalf(r) ==
    LET res == ReadableHalf(r)
    IN  IF res = "Overrun" THEN [r EXCEPT !.ret = res]
        ELSE IF r.readable_half = "First" /\ r.txcf
        THEN [r EXCEPT !.txcf = FALSE, !.readable_half = "Second",
                       !.ret = res]
        ELSE IF r.readable_half = "Second" /\ r.htxf
        THEN [r EXCEPT !.htxf = FALSE, !.readable_half = "First",
                       !.ret = res]
        ELSE [r EXCEPT !.ret = res]

\* CircBuffer::readable_half, called by the program
readable_half ==
    /\ circ.pc = "idle" /\ circ.chen
    /\ circ' = AfterReadableHalf(circ)
    /\ UNCHANGED <<rccVars, gpioVars, busVars, altVars, uart, i2c, nor>>

\* CircBuffer::peek up to the call of the closure
PeekBegin ==
    /\ circ.pc = "idle" /\ circ.chen
    /\ circ' = LET r == AfterReadableHalf(circ)
               IN  IF r.ret = "Overrun" THEN r
                   ELSE [r EXCEPT !.pc = "closure", !.half_being_read = r.ret,
                                  !.overwritten = FALSE]
    /\ UNCHANGED <<rccVars, gpioVars, busVars, altVars, uart, i2c, nor>>

\* the result of peek by the flags after the closure
PeekResult(r) ==
    IF \/ r.half_being_read = "First" /\ r.txcf
       \/ r.half_being_read = "Second" /\ r.htxf
    THEN "Overrun"
    ELSE "Ok"

\* CircBuffer::peek after the closure returned
PeekEnd ==
    /\ circ.pc = "closure"
    /\ circ' = [circ EXCEPT !.pc = "idle", !.ret = PeekResult(circ)]
    /\ UNCHANGED <<rccVars, gpioVars, busVars, altVars, uart, i2c, nor>>

\* the channel filled the first half and goes on into the second
HalfTransfer ==
    /\ circ.chen /\ circ.writing = "First"
    /\ circ' = [circ EXCEPT !.writing = "Second", !.htxf = TRUE,
                            !.filled["First"] = TRUE,
                            !.overwritten =
                                @ \/ (circ.pc = "closure"
                                          /\ circ.half_being_read = "Second")]
    /\ UNCHANGED <<rccVars, gpioVars, busVars, altVars, uart, i2c, nor>>

\* the channel filled the second half and wraps to the first
TransferComplete ==
    /\ circ.chen /\ circ.writing = "Second"
    /\ circ' = [circ EXCEPT !.writing = "First", !.txcf = TRUE,
                            !.filled["Second"] = TRUE,
                            !.overwritten =
                                @ \/ (circ.pc = "closure"
                                          /\ circ.half_being_read = "First")]
    /\ UNCHANGED <<rccVars, gpioVars, busVars, altVars, uart, i2c, nor>>

\* CircBuffer::stop: the channel is disabled with its flags cleared, and
\* the buffer is given back
CircStop ==
    /\ circ.pc = "idle" /\ circ.chen
    /\ circ' = [circ EXCEPT !.chen = FALSE, !.htxf = FALSE, !.txcf = FALSE,
                            !.ret = "stopped"]
    /\ UNCHANGED <<rccVars, gpioVars, busVars, altVars, uart, i2c, nor>>

-----------------------------------------------------------------------------
(* The drivers after their constructors *)

InitDrv == InitUart /\ InitI2c /\ InitNor /\ InitCirc

-----------------------------------------------------------------------------
(* The clock tree: CFGR from constrain() to the end of freeze *)

Init == InitRcc /\ InitGpio /\ InitBus /\ InitAlt /\ InitDrv

Next ==
    \/ UseHse
    \/ BypassHseOscillator
    \/ SetHclk
    \/ SetPclk1
    \/ SetPclk2
    \/ SetSysclk
    \/ Freeze
    \/ FreezeUnchecked
    \/ FlashSetup
    \/ HseEnable
    \/ HseWait
    \/ PllEnable
    \/ PllWait
    \/ SetPrescalers
    \/ UsbPresFirst
    \/ Adc1m
    \/ AdcPres
    \/ Trng
    \/ UsbPresSecond
    \/ SelectSysclk
    \/ HseReady
    \/ PllReady

Spec == Init /\ [][Next]_vars

(* The same, with the processor never stopping inside freeze: a statement  *)
(* of freeze_internal that can be executed is executed.  Nothing is        *)
(* assumed of the oscillators, whose ready flags may stay clear for ever.  *)

FreezeRuns ==
    \/ FlashSetup
    \/ HseEnable
    \/ HseWait
    \/ PllEnable
    \/ PllWait
    \/ SetPrescalers
    \/ UsbPresFirst
    \/ Adc1m
    \/ AdcPres
    \/ Trng
    \/ UsbPresSecond
    \/ SelectSysclk

SpecRuns == Spec /\ WF_vars(FreezeRuns)

(* The pins of the ports, with the clock tree left as constrain() made it *)

InitPins ==
    /\ InitRcc
    /\ device = "n32g451"
    /\ ~overflow_checks
    /\ InitGpio
    /\ InitBus
    /\ InitAlt
    /\ InitDrv

NextGpio ==
    \/ SetOpenDrain
    \/ IntoAlternate
    \/ IntoAlternateOpenDrain
    \/ IntoFloatingInput
    \/ IntoPullDownInput
    \/ IntoPullUpInput
    \/ IntoOpenDrainOutput
    \/ IntoOpenDrainOutputInState
    \/ IntoPushPullOutput
    \/ IntoPushPullOutputInState
    \/ IntoAnalog
    \/ WithFloatingInput
    \/ WithPullUpInput
    \/ WithPullDownInput
    \/ WithAnalog
    \/ WithOpenDrainOutput
    \/ WithOpenDrainOutputInState
    \/ WithPushPullOutput
    \/ WithPushPullOutputInState
    \/ ResetModeDrop
    \/ set_high
    \/ set_low
    \/ toggle

SpecGpio == InitPins /\ [][NextGpio]_vars

(* The pins again, with the slew rate: conversions of owned pins, the     *)
(* output operations and set_speed                                         *)

NextSpeed ==
    \/ IntoAlternate
    \/ IntoFloatingInput
    \/ IntoPullUpInput
    \/ IntoOpenDrainOutput
    \/ IntoPushPullOutput
    \/ IntoAnalog
    \/ set_high
    \/ set_low
    \/ set_speed

SpecSpeed == InitPins /\ [][NextSpeed]_vars

(* The circular buffer and its channel *)

NextCirc ==
    \/ readable_half
    \/ PeekBegin
    \/ PeekEnd
    \/ HalfTransfer
    \/ TransferComplete
    \/ CircStop

SpecCirc == InitPins /\ [][NextCirc]_vars

(* The flash array *)

NextNor ==
    \/ erase
    \/ write
    \/ read

SpecNor == InitPins /\ [][NextNor]_vars

(* The I2C master with both DMA channels *)

NextI2c ==
    \/ write_dma
    \/ read_dma
    \/ write_read_dma
    \/ handle_dma_interrupt
    \/ handle_error_interrupt
    \/ TxDmaEvent
    \/ RxDmaEvent
    \/ I2cErrorEvent
    \/ StopCondition

SpecI2c == InitPins /\ [][NextI2c]_vars

(* The serial constructor on n32g451 *)

NextSerial ==
    \/ SerialNew
    \/ SerialRelease

SpecSerial == InitPins /\ [][NextSerial]_vars

(* The bus gates: enable, disable, reset and the constructors, with the    *)
(* clock tree and the pins left as constrain() and split() made them       *)

NextBus ==
    \/ Enable
    \/ Disable
    \/ Reset
    \/ reset_clear
    \/ CtorEnable
    \/ CtorResetSet
    \/ CtorResetClear
    \/ CtorAccess
    \/ CtorErr
    \/ CtorReturn

SpecBus == Init /\ [][NextBus]_vars

(* The alternate functions of n32g451: conversions and constructors *)

NextAlt ==
    \/ From
    \/ spi
    \/ spi_bidi
    \/ spi_rxonly
    \/ spi_slave
    \/ serial
    \/ tx
    \/ rx

SpecAlt == InitPins /\ [][NextAlt]_vars

-----------------------------------------------------------------------------
(* Properties of the clock tree *)

\* the dividers the AHB and APB prescaler fields can select
AhbDividers == {1, 2, 4, 8, 16, 64, 128, 256, 512}

ApbDividers == {1, 2, 4, 8, 16}

Returned == clocks # None

\* C1: with HSE as the PLL source, the returned sysclk is the closest
\* frequency not above the target that prescaler 1 or 2 can achieve, that
\* is, its residual is the minimum of the two residuals.
C1_MinimalResidual ==
    (Returned /\ use_hse /\ sysclk_on_pll) =>
        \A presc \in {1, 2} :
            sysclk_target - clocks[1].sysclk
                <= PllResidual(pllsrcclk, sysclk_target, presc)

\* C2, as claimed: every Clocks returned by the checked freeze() has sysclk
\* within [SYSCLK_MIN, SYSCLK_MAX].
C2_SysclkAlwaysInRange ==
    (Returned /\ ~unchecked) =>
        (SYSCLK_MIN <= clocks[1].sysclk /\ clocks[1].sysclk <= SYSCLK_MAX)

\* C2, amended: every Clocks returned by the checked freeze() with sysclk
\* on the PLL has sysclk within [SYSCLK_MIN, SYSCLK_MAX], and such a
\* configuration whose sysclk is outside the range panics; without the PLL
\* the returned sysclk is the source frequency, which is not checked.
C2_SysclkInRangeOnPll ==
    /\ (Returned /\ ~unchecked /\ sysclk_on_pll) =>
           (SYSCLK_MIN <= clocks[1].sysclk /\ clocks[1].sysclk <= SYSCLK_MAX)
    /\ (Returned /\ ~sysclk_on_pll) => clocks[1].sysclk = pllsrcclk
    /\ (pc # "cfgr" /\ ~unchecked /\ sysclk_on_pll /\ ~FastSetupPanics
            /\ ~(SYSCLK_MIN <= RealSysclk /\ RealSysclk <= SYSCLK_MAX)) =>
           pc = "panicked"

C2_Witness == Returned /\ ~unchecked /\ sysclk_on_pll

\* C5, as claimed: the AHB divider is the smallest one of the set with
\* sysclk / divider <= requested hclk (1 when hclk is unset), so the
\* realized hclk never exceeds the request.
C5_SmallestDividerNotAbove ==
    Returned =>
        LET sysclk == clocks[1].sysclk
            req    == unwrap_or(cfgr.hclk, sysclk)
            d      == rcc_cfg.ahbpres
        IN  /\ d \in AhbDividers
            /\ sysclk \div d <= req
            /\ \A e \in AhbDividers : e < d => sysclk \div e > req
            /\ clocks[1].hclk <= req

\* C5, amended: with r = ceil(sysclk / requested hclk), the AHB divider is
\* a member of the set next to r: the smallest member >= r or the largest
\* member < r; it is 1 when hclk is unset; and whenever the divider is >= r
\* the realized hclk does not exceed the request.
C5_DividerNextToRatio ==
    Returned =>
        LET sysclk == clocks[1].sysclk
            req    == unwrap_or(cfgr.hclk, sysclk)
            r      == (sysclk + req - 1) \div req
            d      == rcc_cfg.ahbpres
        IN  /\ d \in AhbDividers
            /\ cfgr.hclk = None => d = 1
            /\ \/ d >= r /\ \A e \in AhbDividers : e < d => e < r
               \/ d < r /\ \A e \in AhbDividers : e > d => e >= r
            /\ d >= r => clocks[1].hclk <= req

C5_Witness ==
    /\ Returned
    /\ cfgr.hclk # None
    /\ rcc_cfg.ahbpres >= (clocks[1].sysclk + cfgr.hclk[1] - 1) \div cfgr.hclk[1]
    /\ rcc_cfg.ahbpres > 2

\* C6: whenever the checked freeze() returns, pclk1 and pclk2 are hclk
\* divided by the programmed APB divider, a member of {1,2,4,8,16}, and
\* pclk1 <= PCLK1_MAX and pclk2 <= PCLK2_MAX, whatever was requested.
C6_PclkWithinMax ==
    (Returned /\ ~unchecked) =>
        /\ rcc_cfg.apb1pres \in ApbDividers
        /\ rcc_cfg.apb2pres \in ApbDividers
        /\ clocks[1].pclk1 = clocks[1].hclk \div rcc_cfg.apb1pres
        /\ clocks[1].pclk2 = clocks[1].hclk \div rcc_cfg.apb2pres
        /\ clocks[1].pclk1 <= PCLK1_MAX
        /\ clocks[1].pclk2 <= PCLK2_MAX

C6_Witness ==
    /\ Returned
    /\ ~unchecked
    /\ cfgr.pclk1 = Some(100000000)
    /\ cfgr.pclk2 # None

\* C7: the returned hclk is sysclk divided by the programmed AHB divider,
\* a member of the legal set, and hclk <= sysclk.
C7_HclkIsSysclkOverDivider ==
    Returned =>
        /\ rcc_cfg.ahbpres \in AhbDividers
        /\ clocks[1].hclk = clocks[1].sysclk \div rcc_cfg.ahbpres
        /\ clocks[1].hclk <= clocks[1].sysclk

C7_Witness == Returned /\ cfgr.hclk # None /\ rcc_cfg.ahbpres > 1

\* C8: when the checked freeze() returns with the PLL in use, the multiplier is >= 1,
\* is encoded as (flag clear, multiplier - 1) up to 16 and (flag set,
\* multiplier - 17) above, the field value fits 4 bits, and the multiplier
\* decoded from the 4-bit field and the flag, times vco_in, is the
\* returned sysclk.
C8_MultiplierEncodedExactly ==
    (Returned /\ ~unchecked /\ loc.use_pll) =>
        LET m       == PllMul(pllsrcclk, use_hse, sysclk_target)
            vco_in  == PllVcoIn(pllsrcclk, use_hse, sysclk_target)
            h       == rcc_cfg.pllmulfct_h
            f       == rcc_cfg.pllmulfct
            decoded == (f % 16) + (IF h THEN 17 ELSE 1)
        IN  /\ m >= 1
            /\ m <= 16 => (~h /\ f = m - 1)
            /\ m > 16 => (h /\ f = m - 17)
            /\ f < 16
            /\ decoded * vco_in = clocks[1].sysclk

Count(w) == Cardinality({i \in DOMAIN writes : writes[i] = w})

\* C9: the write that selects the system clock mux is the final hardware
\* write of freeze(), after the PLL configuration, the bus prescalers and
\* the USB / ADC / TRNG prescalers, and no other step of freeze() changes
\* the mux selection.
C9_MuxSelectedLast ==
    /\ [](Returned =>
            /\ writes[Len(writes)] = "cfg.sclksw"
            /\ Count("cfg.sclksw") = 1
            /\ loc.use_pll => Count("cfg.pll") = 1
            /\ Count("cfg.pres") = 1
            /\ Count("cfg.usbpres") = 2
            /\ Count("cfg2.adc1m") = 1
            /\ Count("cfg2.adcpres") = 1
            /\ Count("cfg3.trng") = 1)
    /\ [][rcc_cfg'.sclksw # rcc_cfg.sclksw => (pc = "sclksw" /\ pc' = "done")]_vars

C9_Witness == Returned /\ loc.use_pll /\ rcc_cfg.sclksw = "Pll"

\* position of the first access w in writes, 0 when there is none
First(w) ==
    IF Count(w) = 0 THEN 0
    ELSE CHOOSE i \in DOMAIN writes :
            writes[i] = w /\ \A j \in 1..(i - 1) : writes[j] # w

Before(a, b) == First(a) > 0 /\ (First(b) > 0 => First(a) < First(b))

\* C10: the flash wait-states for the final sysclk, (sysclk - 1) div
\* 24 MHz, are written before HSE or the PLL is enabled and before the
\* clock switch; with HSE, the PLL is enabled only after HSE ready was
\* read set; with the PLL, the prescaler write and the clock switch happen
\* only after PLL ready was read set.
C10_CommitOrder ==
    /\ (rcc_ctrl.hseen \/ rcc_ctrl.pllen \/ Count("cfg.sclksw") > 0) =>
           /\ flash_ac.latency = (loc.sysclk - 1) \div flash_latency_step
           /\ Before("flash.ac", "ctrl.hseen")
           /\ Before("flash.ac", "ctrl.pllen")
           /\ Before("flash.ac", "cfg.sclksw")
    /\ (use_hse /\ rcc_ctrl.pllen) =>
           (rcc_ctrl.hserdf /\ Before("ctrl.hserdf", "ctrl.pllen"))
    /\ (loc.use_pll /\ (Count("cfg.pres") > 0 \/ Count("cfg.sclksw") > 0)) =>
           /\ rcc_ctrl.pllrdf
           /\ Before("ctrl.pllrdf", "cfg.pres")
           /\ Before("ctrl.pllrdf", "cfg.sclksw")

C10_Witness ==
    /\ pc = "done"
    /\ use_hse
    /\ loc.use_pll
    /\ flash_ac.latency > 0

\* C20: freeze() uses the PLL exactly when the target sysclk differs from
\* the source clock (the HSE frequency when configured, else HSI): then the
\* PLL has been enabled and the mux selects the PLL; otherwise the PLL is
\* never enabled, Clocks.sysclk is the source frequency and the mux selects
\* HSE when configured, else HSI.
C20_PllExactlyWhenTargetDiffers ==
    Returned =>
        IF unwrap_or(cfgr.sysclk, unwrap_or(cfgr.hse, HSI)) # unwrap_or(cfgr.hse, HSI)
        THEN /\ rcc_ctrl.pllen
             /\ Count("ctrl.pllen") = 1
             /\ rcc_cfg.sclksw = "Pll"
        ELSE /\ ~rcc_ctrl.pllen
             /\ Count("ctrl.pllen") = 0
             /\ Count("cfg.pll") = 0
             /\ clocks[1].sysclk = unwrap_or(cfgr.hse, HSI)
             /\ rcc_cfg.sclksw = (IF is_some(cfgr.hse) THEN "Hse" ELSE "Hsi")

C20_Witness ==
    /\ Returned
    /\ is_some(cfgr.hse)
    /\ cfgr.sysclk = cfgr.hse
    /\ rcc_cfg.sclksw = "Hse"
    /\ rcc_ctrl.hseen

\* C21: with HSE = 8 MHz and sysclk = 128 MHz requested on a device whose
\* SYSCLK_MAX is 128 MHz, a returned freeze() has used the PLL, the
\* prescaler and multiplier programmed into CFG give
\* (HSE / prescaler) * multiplier = 128 MHz exactly, and Clocks.sysclk is
\* 128 MHz.
C21_Hse8To128Exact ==
    (Returned /\ cfgr.hse = Some(8000000) /\ cfgr.sysclk = Some(128000000)
         /\ SYSCLK_MAX = 128000000) =>
        LET presc == IF rcc_cfg.pllhsepres THEN 2 ELSE 1
            mul   == (rcc_cfg.pllmulfct % 16)
                         + (IF rcc_cfg.pllmulfct_h THEN 17 ELSE 1)
        IN  /\ loc.use_pll
            /\ rcc_ctrl.pllen
            /\ rcc_cfg.pllsrc
            /\ rcc_cfg.pllmulfct < 16
            /\ (8000000 \div presc) * mul = 128000000
            /\ clocks[1].sysclk = 128000000

C21_Witness ==
    /\ Returned
    /\ ~unchecked
    /\ cfgr.hse = Some(8000000)
    /\ cfgr.sysclk = Some(128000000)
    /\ SYSCLK_MAX = 128000000
    /\ rcc_cfg.sclksw = "Pll"

\* freeze_internal is on one of its two polling loops with the flag clear
Polling ==
    \/ pc = "hse_wait" /\ ~rcc_ctrl.hserdf
    \/ pc = "pll_wait" /\ ~rcc_ctrl.pllrdf

\* freeze_internal is past its assertions and has not returned
Committing == pc \notin {"cfgr", "panicked", "done"}

\* C24: a freeze() that has returned has seen every ready flag it waits on
\* set (HSE ready with HSE, PLL ready with the PLL); while such a flag is
\* clear the loop makes no progress, the mux stays on HSI and no Clocks is
\* returned, for as long as the flag stays clear; and a freeze() that is not
\* held by a clear flag goes on, so once the flags it waits on are set it
\* returns.
C24_ReturnsIffFlagsSet ==
    /\ [](Returned =>
            /\ use_hse => (rcc_ctrl.hserdf /\ Count("ctrl.hserdf") = 1)
            /\ loc.use_pll => (rcc_ctrl.pllrdf /\ Count("ctrl.pllrdf") = 1))
    /\ [](Polling => (~Returned /\ rcc_cfg.sclksw = "Hsi"))
    /\ [][Polling => (pc' = pc /\ rcc_cfg' = rcc_cfg /\ clocks' = clocks
                          /\ writes' = writes)]_vars
    /\ (Committing /\ ~Polling) ~> (Returned \/ Polling)
    /\ (Committing /\ (use_hse => rcc_ctrl.hserdf)
            /\ (loc.use_pll => rcc_ctrl.pllrdf)) ~> Returned

C24_Witness ==
    /\ Returned
    /\ Count("ctrl.hserdf") = 1
    /\ Count("ctrl.pllrdf") = 1
    /\ rcc_ctrl.hserdf
    /\ rcc_ctrl.pllrdf

\* C27: for every Clocks returned by freeze() and every timer of the
\* device, the base clock timer_clock reports, TIM1 and TIM8 with their
\* doubling included, is not above Clocks.sysclk.
C27_TimerClockWithinSysclk ==
    Returned =>
        \A t \in Timers : timer_clock(t, clocks[1]) <= clocks[1].sysclk

\* C28 as claimed: an explicit pclk1 (pclk2) request r with hclk / 16 <= r
\* is never exceeded by the realized Clocks.pclk1 (Clocks.pclk2).
C28_PclkNotAboveRequest ==
    Returned =>
        /\ (is_some(cfgr.pclk1) /\ clocks[1].hclk \div 16 <= cfgr.pclk1[1]) =>
               clocks[1].pclk1 <= cfgr.pclk1[1]
        /\ (is_some(cfgr.pclk2) /\ clocks[1].hclk \div 16 <= cfgr.pclk2[1]) =>
               clocks[1].pclk2 <= cfgr.pclk2[1]

\* the ceiling ratios the match rounds down: 5 is given 4, 9..11 are given 8
RoundedDown == {5, 9, 10, 11}

\* C28 amended: with an explicit request r and hclk / 16 <= r, the realized
\* pclk is hclk over the divider of the bucket of ceil(hclk / r), which is
\* programmed into the prescaler field, and it does not exceed r unless the
\* ratio is 5 or 9..11, where the divider is the next smaller one (4 or 8).
C28_PclkNotAboveRequestUnlessRoundedDown ==
    Returned =>
        /\ (is_some(cfgr.pclk1) /\ clocks[1].hclk \div 16 <= cfgr.pclk1[1]) =>
               /\ rcc_cfg.apb1pres = PpreDiv(Ratio(clocks[1].hclk, cfgr.pclk1[1]))
               /\ clocks[1].pclk1 = clocks[1].hclk \div rcc_cfg.apb1pres
               /\ Ratio(clocks[1].hclk, cfgr.pclk1[1]) \notin RoundedDown =>
                      clocks[1].pclk1 <= cfgr.pclk1[1]
               /\ Ratio(clocks[1].hclk, cfgr.pclk1[1]) \in RoundedDown =>
                      rcc_cfg.apb1pres < Ratio(clocks[1].hclk, cfgr.pclk1[1])
        /\ (is_some(cfgr.pclk2) /\ clocks[1].hclk \div 16 <= cfgr.pclk2[1]) =>
               /\ rcc_cfg.apb2pres = PpreDiv(Ratio(clocks[1].hclk, cfgr.pclk2[1]))
               /\ clocks[1].pclk2 = clocks[1].hclk \div rcc_cfg.apb2pres
               /\ Ratio(clocks[1].hclk, cfgr.pclk2[1]) \notin RoundedDown =>
                      clocks[1].pclk2 <= cfgr.pclk2[1]
               /\ Ratio(clocks[1].hclk, cfgr.pclk2[1]) \in RoundedDown =>
                      rcc_cfg.apb2pres < Ratio(clocks[1].hclk, cfgr.pclk2[1])

C28_Witness ==
    /\ Returned
    /\ is_some(cfgr.pclk1)
    /\ clocks[1].hclk \div 16 <= cfgr.pclk1[1]
    /\ rcc_cfg.apb1pres = 8
    /\ clocks[1].pclk1 < cfgr.pclk1[1]

-----------------------------------------------------------------------------
(* Properties of the pins *)

PodBit(p) == pod[p[1]][p[2]]

\* C3: a conversion takes the pull direction from the new mode: after a
\* conversion into Input<PullUp> the pin's POD bit has been set through
\* PBSC, after one into Input<PullDown> it has been cleared through PBC,
\* and a conversion into a mode without a pull direction writes neither.
C3_PullFromNewMode ==
    gpio_last.op = "into" =>
        LET p == gpio_last.pin
            m == typestate[p]
        IN  /\ m = "InputPullUp" => (gpio_last.pull = "pbsc" /\ PodBit(p) = 1)
            /\ m = "InputPullDown" => (gpio_last.pull = "pbc" /\ PodBit(p) = 0)
            /\ PULL(m) = None => gpio_last.pull = "none"

\* C4: after any sequence of conversions and output operations, the CNF
\* and MODE bits of every pin, and its pull-direction bit when its mode
\* defines one, equal the PinMode constants of its current type-state.
C4_TypeStateMatchesHardware ==
    \A p \in Pins :
        LET m == CurrentMode(p)
        IN  /\ PinCnfBits(p[1], p[2]) = CNF(m)
            /\ PinModeBits(p[1], p[2]) = MODE(m)
            /\ PULL(m) # None => PodBit(p) = (IF PULL(m)[1] THEN 1 ELSE 0)

\* C14: when the closure of with_<mode> has returned or unwound, the pin's
\* CNF and MODE fields, and its pull-direction bit when the original mode
\* is a pull-up or pull-down input, are those the pin had before the call;
\* also for the outer call when one with_<mode> runs inside another's
\* closure.
C14_WithModeRestores ==
    [][(frames # << >> /\ frames' = SubSeq(frames, 1, Len(frames) - 1)) =>
          \A p \in Pins :
              p = frames[Len(frames)].pin =>
                  LET top == frames[Len(frames)]
                  IN  /\ PinCnfBits(p[1], p[2])' = top.before.cnf
                      /\ PinModeBits(p[1], p[2])' = top.before.mode
                      /\ PULL(top.orig) # None =>
                             top.before.pull = Some(PodBit(p)' = 1)]_vars

\* C15: an output conversion leaves the documented initial level in the
\* pin's output data bit when CNF/MODE is switched and when it returns:
\* the requested state for the _in_state conversions, low for
\* into_push_pull_output and into_open_drain_output, from every prior mode.
C15_InitialLevelEstablished ==
    [][\A p \in Pins :
          /\ Into(p, "OutputPushPull", PodClear(pod, p), "into") => PodBit(p)' = 0
          /\ Into(p, "OutputOpenDrain", pod, "into") => PodBit(p)' = 0
          /\ \A high \in BOOLEAN :
                 /\ Into(p, "OutputPushPull", SetState(pod, p, high), "into") =>
                        PodBit(p)' = (IF high THEN 1 ELSE 0)
                 /\ Into(p, "OutputOpenDrain", SetState(pod, p, high), "into") =>
                        PodBit(p)' = (IF high THEN 1 ELSE 0)]_vars

\* C16: a mode transition of pin N changes only the CNF/MODE slot of pin N,
\* in the low configuration register for N < 8 and in the high one
\* otherwise: the slots of all other pins of the port and of the other
\* ports keep their bits.
C16_OnlyOwnSlotChanges ==
    [][\A p \in Pins :
          p = gpio_last'.pin =>
              /\ \A port \in Ports \ {p[1]} :
                     pl_cfg'[port] = pl_cfg[port] /\ ph_cfg'[port] = ph_cfg[port]
              /\ IF p[2] < 8
                 THEN /\ ph_cfg' = ph_cfg
                      /\ \A b \in 0..31 :
                             b \div 4 # p[2] => pl_cfg'[p[1]][b] = pl_cfg[p[1]][b]
                 ELSE /\ pl_cfg' = pl_cfg
                      /\ \A b \in 0..31 :
                             b \div 4 # p[2] - 8 => ph_cfg'[p[1]][b] = ph_cfg[p[1]][b]]_vars

C16_Witness ==
    /\ PinCnfBits("A", 9) = CNF("AlternateOpenDrain")
    /\ PinModeBits("A", 9) = MODE("AlternateOpenDrain")
    /\ PinCnfBits("A", 1) = CNF("OutputPushPull")
    /\ PinModeBits("A", 1) = MODE("OutputPushPull")
    /\ gpio_last.op = "into"

\* the CNF / MODE fields into_floating_input gives pin n of a port that has
\* just been reset
FreshFloating(n) ==
    LET reset == [b \in 0..31 |-> IF b % 4 = 2 THEN 1 ELSE 0]
        reg   == ModeCfg(reset, n, "InputFloating")
    IN  [cnf |-> Field(reg, PcfgShift(n)), mode |-> Field(reg, PmodeShift(n))]

\* C22: the CNF / MODE field a conversion leaves is a function of the
\* target mode alone: into_push_pull_output leaves the push-pull output
\* pattern, and on a pin that is a push-pull output already it leaves the
\* field as it is; into_floating_input, after into_analog or after any
\* other mode, leaves the pattern it gives a freshly reset pin.
C22_FieldIsFunctionOfTarget ==
    [][\A p \in Pins :
          /\ Into(p, "OutputPushPull", PodClear(pod, p), "into") =>
                 /\ PinCnfBits(p[1], p[2])' = CNF("OutputPushPull")
                 /\ PinModeBits(p[1], p[2])' = MODE("OutputPushPull")
                 /\ typestate[p] = "OutputPushPull" =>
                        /\ PinCnfBits(p[1], p[2])' = PinCnfBits(p[1], p[2])
                        /\ PinModeBits(p[1], p[2])' = PinModeBits(p[1], p[2])
          /\ Into(p, "InputFloating", pod, "into") =>
                 /\ PinCnfBits(p[1], p[2])' = FreshFloating(p[2]).cnf
                 /\ PinModeBits(p[1], p[2])' = FreshFloating(p[2]).mode]_vars

\* into_floating_input has been called on a pull-up input: the field is the
\* one of a fresh pin, with the pull bit of the previous mode left behind
C22_Witness ==
    /\ gpio_last = [op |-> "into", pin |-> <<"A", 9>>, pull |-> "pbsc"]
    /\ typestate[<<"A", 9>>] = "InputFloating"
    /\ PinCnfBits("A", 9) = FreshFloating(9).cnf
    /\ PinModeBits("A", 9) = FreshFloating(9).mode
    /\ pod["A"][9] = 1

\* C26: set_speed on pin N changes only the MODE bits of the 4-bit slot of
\* pin N, in the low configuration register for N < 8 and in the high one
\* otherwise: every bit outside that slot, the CNF bits of pin N and both
\* registers of the other ports keep their value.
C26_SetSpeedOnlyOwnSlot ==
    [][\A p \in Pins, speed \in Speed :
          SetSpeed(p, speed) =>
              /\ \A port \in Ports \ {p[1]} :
                     pl_cfg'[port] = pl_cfg[port] /\ ph_cfg'[port] = ph_cfg[port]
              /\ PinCnfBits(p[1], p[2])' = PinCnfBits(p[1], p[2])
              /\ IF p[2] < 8
                 THEN /\ ph_cfg' = ph_cfg
                      /\ \A b \in 0..31 :
                             b \div 4 # p[2] => pl_cfg'[p[1]][b] = pl_cfg[p[1]][b]
                 ELSE /\ pl_cfg' = pl_cfg
                      /\ \A b \in 0..31 :
                             b \div 4 # p[2] - 8 =>
                                 ph_cfg'[p[1]][b] = ph_cfg[p[1]][b]]_vars

-----------------------------------------------------------------------------
(* Properties of the bus gates and of the constructors *)

\* C17: for every bus-gated peripheral, after any sequence of enable,
\* disable and reset calls on any peripherals, is_enabled() is true in the
\* state enable() of that peripheral leaves and false in the state
\* disable() of that peripheral leaves.
C17_IsEnabledFollowsEnableDisable ==
    [][/\ \A x \in OpPers :
              /\ enable(x) => is_enabled(x)'
              /\ disable(x) => ~is_enabled(x)'
       /\ CtorEnable => \A x \in OpPers : x = bus_pc'.per => is_enabled(x)']_vars

\* GPIOA was enabled by split() and disabled after it returned, AFIO was
\* enabled, and a reset of another peripheral is half way
C17_Witness ==
    /\ bus_pc.kind = "reset"
    /\ Last(bus_pc.log) = "rst_set"
    /\ bus_pc.per = "SPI1"
    /\ ~is_enabled("GPIOA")
    /\ is_enabled("AFIO")
    /\ is_enabled("USART1")
    /\ prst[Bus("SPI1")] = {Bit("SPI1")}

\* the call or constructor statement of this step works on peripheral x
OnPeripheral(x) ==
    \/ enable(x)
    \/ disable(x)
    \/ reset_set(x)
    \/ /\ x = bus_pc.per
       /\ reset_clear \/ CtorResetSet \/ CtorResetClear
    \/ /\ x = bus_pc'.per
       /\ CtorEnable

\* C18: within a device no two distinct peripherals have the same
\* (bus, bit); an enable, disable or reset step on X changes no bit of an
\* enable or reset register other than X's bit of X's bus, so is_enabled(Y)
\* of every other Y is unchanged; and with handlers that enable or disable
\* other peripherals running between any two statements, every peripheral
\* is enabled exactly when its last enable()/disable() asked so.
C18_OnlyOwnBitChanges ==
    [][/\ Cardinality({<<Bus(x), Bit(x)>> : x \in Peripherals})
              = Cardinality(Peripherals)
       /\ \A x \in OpPers :
              OnPeripheral(x) =>
                  /\ \A b \in Buses :
                         /\ pclken'[b] \ {Bit(x)} = pclken[b] \ {Bit(x)}
                         /\ prst'[b] \ {Bit(x)} = prst[b] \ {Bit(x)}
                         /\ b # Bus(x) => pclken'[b] = pclken[b] /\ prst'[b] = prst[b]
                  /\ \A y \in Peripherals \ {x} : is_enabled(y)' = is_enabled(y)
       /\ \A x \in OpPers : is_enabled(x)' = want'[x]]_vars

\* a handler disabled USART1 between the two writes of the reset pulse of
\* SPI1, which is on the same bus, and SPI1 is still enabled
C18_Witness ==
    /\ bus_pc.kind = "reset"
    /\ bus_pc.per = "SPI1"
    /\ Last(bus_pc.log) = "rst_clear"
    /\ Bus("USART1") = Bus("SPI1")
    /\ is_enabled("SPI1")
    /\ ~is_enabled("USART1")
    /\ is_enabled("AFIO")
    /\ prst[Bus("SPI1")] = {}

\* the reset pulse of a call or of a constructor
ResetPulse == Reset \/ reset_clear \/ CtorResetSet \/ CtorResetClear

\* C19 as stated: every constructor enables the bus clock of its
\* peripheral, then sets and clears the reset bit, before its first access
\* to the registers of the peripheral and before it returns, the reset bit
\* is then clear, and the pulse leaves the enable registers as they were.
C19_EveryCtorEnablesThenResets ==
    [][/\ (CtorAccess \/ CtorReturn) =>
              /\ Len(bus_pc.log) >= 3
              /\ SubSeq(bus_pc.log, 1, 3) = <<"enable", "rst_set", "rst_clear">>
              /\ is_enabled(bus_pc.per)
              /\ Bit(bus_pc.per) \notin prst[Bus(bus_pc.per)]
       /\ ResetPulse => pclken' = pclken]_vars

\* C19 amended: GpioExt::split, AfioExt::constrain, Spi::new and the serial
\* constructor enable the bus clock, then set and clear the reset bit,
\* before the first access to the peripheral and before they return, and
\* the pulse leaves the enable registers as they were; DmaExt::split
\* enables the bus clock and writes the DMA registers with no reset pulse.
C19_CtorsEnableThenResetButDma ==
    [][/\ (CtorAccess \/ CtorReturn) =>
              /\ bus_pc.log[1] = "enable"
              /\ is_enabled(bus_pc.per)
              /\ Bit(bus_pc.per) \notin prst[Bus(bus_pc.per)]
              /\ IF bus_pc.kind = "DmaExt::split"
                 THEN \A i \in 1..Len(bus_pc.log) :
                          bus_pc.log[i] \notin {"rst_set", "rst_clear"}
                 ELSE /\ Len(bus_pc.log) >= 3
                      /\ SubSeq(bus_pc.log, 1, 3) = <<"enable", "rst_set", "rst_clear">>
       /\ ResetPulse => pclken' = pclken]_vars

\* the serial constructor has returned its handle after the pulse, with a
\* handler having enabled another peripheral of the bus meanwhile
C19_Witness ==
    /\ bus_pc.kind = "RegisterBlockImpl::new"
    /\ bus_pc.log = <<"enable", "rst_set", "rst_clear", "access", "return">>
    /\ is_enabled("USART1")
    /\ is_enabled("SPI1")
    /\ prst[Bus("USART1")] = {}

-----------------------------------------------------------------------------
(* Properties of the alternate functions *)

\* C11: a pin has been converted into a signal wrapper of a peripheral only
\* if a RemapIO impl exists for that pin and some remapper marker of that
\* peripheral.
C11_FromOnlyWithRemapIO ==
    alt.op = "from" =>
        \A s \in DOMAIN alt.pins :
            \E rmp \in Remappers(alt.per) : <<alt.per, rmp, alt.pins[s]>> \in RemapIO

\* C12: whenever a constructor that is generic over a remapper marker has
\* returned the handle, the AFIO remap field of the peripheral holds the
\* bit pattern of the marker its pins were checked against.
C12_HandleImpliesRemapped ==
    (alt.op \in {"spi", "spi_bidi", "spi_rxonly", "spi_slave", "serial", "tx", "rx"}
         /\ alt.ret = "handle") =>
        afio_rmp = remap(afio_rmp, alt.per, alt.rmp)

\* C13: for the peripheral in use and every remapper marker of it, every
\* pin with a RemapIO impl for the pair is a variant of exactly one signal
\* wrapper of the peripheral, and the full constructor accepts a complete
\* tuple of distinct pins, one for each required signal.
C13_TablesAgree ==
    alt.per \in AltPers =>
        \A rmp \in Remappers(alt.per) :
            /\ \A e \in RemapIO :
                   (e[1] = alt.per /\ e[2] = rmp) =>
                       Cardinality({w \in Wrapper : w[1] = alt.per /\ w[3] = e[3]}) = 1
            /\ Accepted(alt.per, rmp, Required(alt.per)) # {}

-----------------------------------------------------------------------------
(* Properties of the serial constructor *)

\* a baud rate the UART can produce from its bus clock with 16 samples a
\* bit: not zero and not above a sixteenth of the clock
Achievable(pclk_freq, baud) == baud > 0 /\ 16 * baud <= pclk_freq

\* C23: the serial constructor never panics; it returns
\* Err(InvalidConfig) for every baud rate that cannot be achieved at the
\* bus clock of the UART and an initialized handle for every other one.
C23_ErrNotPanic ==
    uart.per # "none" =>
        /\ uart.result # "panic"
        /\ ~Achievable(uart.pclk_freq, uart.baud) => uart.result = "err"
        /\ Achievable(uart.pclk_freq, uart.baud) =>
               (uart.result \in {"ok", "released"} /\ uart.brcf >= 16)

-----------------------------------------------------------------------------
(* Properties of the I2C master with DMA *)

\* handle_dma_interrupt finds the transmit DMA of a write_read_dma complete
WriteReadTxDone ==
    /\ handle_dma_interrupt
    /\ i2c.op = "write_read_dma"
    /\ i2c.tx_transfer /\ i2c.tx_status = "TransferComplete"

\* handle_dma_interrupt sends the stop condition
DmaHandlerStops ==
    /\ handle_dma_interrupt
    /\ Len(i2c'.log) = Len(i2c.log) + 1
    /\ i2c'.log[Len(i2c'.log)] = StopEv

\* C25: after write_read_dma returned Ok, the completion of the transmit
\* DMA makes handle_dma_interrupt generate a repeated start for a read of
\* the same device and start the receive DMA, and the stop condition is
\* sent only after the receive DMA completed.
C25_WriteThenRestartThenStop ==
    /\ [][WriteReadTxDone =>
              /\ i2c'.rx_transfer /\ i2c'.rx_on
              /\ i2c'.state = "Read"
              /\ Len(i2c'.log) = Len(i2c.log) + 1
              /\ i2c'.log[Len(i2c'.log)] = StartEv("start_r", i2c.address)]_vars
    /\ [][DmaHandlerStops /\ i2c.op = "write_read_dma" =>
              /\ ~i2c.tx_transfer
              /\ i2c.rx_transfer /\ i2c.rx_status = "TransferComplete"]_vars

-----------------------------------------------------------------------------
(* Properties of the flash *)

\* the addresses of the flash array
FlashArray == FLASH_BASE..(FLASH_BASE + capacity - 1)

\* a range of erase or of write that is not empty and ends beyond the
\* capacity
BeyondCapacity ==
    \/ nor.op = "erase" /\ nor.a < nor.b /\ nor.b > capacity
    \/ nor.op = "write" /\ nor.b > 0 /\ nor.a + nor.b > capacity

\* C29: erase and write never erase or program an address outside the
\* flash array, and a range that reaches beyond the capacity is rejected
\* (with OutOfBounds, when it is aligned) before the flash is unlocked and
\* before a page is erased or a word programmed.
C29_NothingOutsideTheArray ==
    /\ nor.erased \subseteq FlashArray
    /\ nor.programmed \subseteq FlashArray
    /\ BeyondCapacity =>
           /\ nor.ret \in {"OutOfBounds", "NotAligned"}
           /\ nor.a % (IF nor.op = "erase" THEN ERASE_SIZE ELSE WRITE_SIZE) = 0
                  /\ nor.b % (IF nor.op = "erase" THEN ERASE_SIZE
                              ELSE WRITE_SIZE) = 0
                  => nor.ret = "OutOfBounds"
           /\ ~nor.unlocked
           /\ nor.erased = {} /\ nor.programmed = {}

-----------------------------------------------------------------------------
(* Properties of the circular buffer *)

\* readable_half, alone or at the start of peek, reports half h
ReportsReadable(h) ==
    /\ readable_half \/ PeekBegin
    /\ circ'.ret = h

\* C30: a half is reported readable only if the DMA has filled it at least
\* once and is not writing into it; no half is reported readable before
\* the first half-transfer event; and peek returns Err(Overrun) whenever
\* the DMA started to overwrite the half during the closure.
C30_ReadableOnlyWhenFilled ==
    /\ [][\A h \in Half :
              ReportsReadable(h) =>
                  circ.filled[h] /\ circ.writing # h]_vars
    /\ [][PeekEnd /\ circ.overwritten => circ'.ret = "Overrun"]_vars
    /\ [][PeekEnd /\ circ'.ret = "Ok" =>
              circ.writing # circ.half_being_read]_vars

====
